---- MODULE Spec2Model ----
(***************************************************************************)
(* Key Vault extension: the popup's vault store and session store, the     *)
(* background service worker's session state, the interval timers and the  *)
(* messages between them, and the encrypted record store (VaultStorage     *)
(* over the Dexie database).                                               *)
(*                                                                         *)
(* JavaScript runs a handler to its next await without interruption, so    *)
(* one action is one such run: a call up to its first await, or the        *)
(* continuation that an awaited database / chrome.storage result resumes.  *)
(***************************************************************************)
EXTENDS Integers, Sequences, FiniteSets, TLC

(* ------------------------------------------------------------------ *)
(* Bounds of the model                                                 *)
(* ------------------------------------------------------------------ *)

\* The clock runs from 0 to MaxClockSteps * ClockStepMs.
MaxClockSteps == 2
\* Asynchronous calls of the vault store (unlock, loadCredentials, setKey's
\* initializeSession) that may be in flight at once.
MaxTasks == 2
\* Messages in flight on one chrome.runtime channel.
MaxQueue == 1
\* Interval-timer handles one JavaScript context hands out (a handle that is
\* no longer live is handed out again: handles are names, and a cleared one
\* is held nowhere).
MaxTimers == 2
\* 'vault-auto-lock' events dispatched in one behaviour.
MaxAutoLockEvents == 2
\* Credential rows the database holds when the popup opens.
MaxStoredCredentials == 1
\* Record ids generateId hands out, and nonces encrypt draws.
MaxIds == 3
MaxNonces == 3
\* VaultStorage calls followed await by await at the same time
MaxCalls == 2

(* ------------------------------------------------------------------ *)
(* Program constants                                                   *)
(* ------------------------------------------------------------------ *)

\* setInterval(..., 10000) of both auto-lock timers.
CheckIntervalMs == 10000
\* DEFAULT_SESSION_SETTINGS.lockTimeoutMinutes and the worker's initial value.
DefaultLockTimeoutMinutes == 15
\* Math.max(1, Math.min(60, minutes))
MinLockTimeoutMinutes == 1
MaxLockTimeoutMinutes == 60
\* ENCRYPTION_VERSION
EncryptionVersion == 1
\* XCHACHA20_PARAMS.NONCE_LENGTH
NONCE_LENGTH == 24
\* autoLockTimerId: null / autoLockTimer = null (a timer handle is truthy).
NoTimer == 0
\* selectedCredentialId: null, folderId: null
NoId == 0
\* chrome.storage.local holds no 'sessionSettings' entry.
NoSettings == 0

\* lockTimeoutMinutes * 60 * 1000
TimeoutMs(minutes) == minutes * 60 * 1000
\* The clock advances in steps of six check intervals (one minute): every
\* event of a behaviour happens at a multiple of it.
ClockStepMs == 6 * CheckIntervalMs
MaxNow == MaxClockSteps * ClockStepMs

\* key: CryptographyKey | null
Null == "null"
\* Derived keys: k1 is the key of the vault's master password, k2 the key
\* derived from another password.
Keys == {"k1"}
\* Credential payloads (title, username, password, ...), opaque here.
CredentialDatas == {"d1", "d2"}
\* Keys of VaultStorage instances and cipher calls: k1 is the key the stored
\* rows are sealed with, k2 a key derived from another password.
CipherKeys == {"k1", "k2"}
\* Arguments a caller passes to setLockTimeout.
TimeoutInputs == {0, 2}
SearchQueries == {"q"}
FolderNames == {"f"}

VARIABLES
  \* vault store (useVaultStore)
  isUnlocked, key, credentials, isLoading, error, searchQuery,
  selectedCredentialId,
  \* session store (useSessionStore)
  isActive, lastActivityTime, lockTimeoutMinutes, autoLockTimerId,
  \* background service worker
  bgIsUnlocked, bgLastActivity, bgLockTimeoutMinutes, bgAutoLockTimer,
  bgSettingsLoaded,
  \* runtime: Date.now(), the live setInterval timers of the popup and of
  \* the worker, whether chrome.runtime exists in the popup's context,
  \* chrome.storage.local's sessionSettings, chrome.runtime messages in flight
  now, liveTimers, bgLiveTimers, chromeRuntime, storedSettings,
  toBackground, toPopup,
  \* the key objects (CryptographyKey) whose buffer has been overwritten
  \* with zero bytes
  zeroedKeys,
  \* the master password the user gave at the last unlock ("" before the
  \* first)
  enteredPassword,
  \* the VaultStorage calls in flight that are followed await by await
  calls,
  \* asynchronous vault-store calls in flight
  tasks,
  \* database (Dexie tables)
  dbCredentials, dbFolders, dbMetadata,
  \* the 'rw' transaction that db.clearAll has open, if any
  tx,
  \* VaultStorage instances held by callers, and the id / nonce sources
  storages, nextId, nextNonce,
  \* history: number of 'vault-auto-lock' events dispatched, time of the
  \* last user action that counts as activity, whether a cipher call used a
  \* key the vault store no longer holds, the last record-store or cipher
  \* call that returned, the data and key of the last createCredential /
  \* updateCredential of each credential id,
  \* what the last run of the popup's timer callback found, and whether
  \* every user action since the unlock came sooner than the lock timeout
  \* after the one before it
  autoLockEvents, lastUserActivity, staleKeyUse, lastOp, lastWrite, lastTick,
  activityGapsShort

vaultVars == <<isUnlocked, key, credentials, isLoading, error, searchQuery,
               selectedCredentialId>>
sessionVars == <<isActive, lastActivityTime, lockTimeoutMinutes,
                 autoLockTimerId>>
bgVars == <<bgIsUnlocked, bgLastActivity, bgLockTimeoutMinutes,
            bgAutoLockTimer, bgSettingsLoaded>>
timerVars == <<liveTimers>>
hostVars == <<chromeRuntime, zeroedKeys, enteredPassword, calls>>
bgTimerVars == <<bgLiveTimers>>
dbVars == <<dbCredentials, dbFolders, dbMetadata, tx>>
storeVars == <<storages, nextId, nextNonce>>
histVars == <<autoLockEvents, lastUserActivity, staleKeyUse, lastOp, lastWrite, lastTick,
              activityGapsShort>>

vars == <<vaultVars, sessionVars, bgVars, timerVars, bgTimerVars, now,
          hostVars, storedSettings,
          toBackground, toPopup, tasks, dbVars, storeVars, histVars>>

Min(S) == CHOOSE x \in S : \A y \in S : x <= y

(* ------------------------------------------------------------------ *)
(* crypto/encryption.ts                                                *)
(* ------------------------------------------------------------------ *)

\* What an asynchronous function settles with: the value it resolves to,
\* or the error it rejects with (name and message of the Error object).
Return(value) ==
  [threw |-> FALSE, name |-> "", message |-> "", value |-> <<value>>]
Throw(name, message) ==
  [threw |-> TRUE, name |-> name, message |-> message, value |-> <<>>]

\* JSON.stringify / JSON.parse of a credential payload. A text is a tuple;
\* the text JSON.stringify(data) is <<"json", data>>, and JSON.parse throws
\* on every other text.
JsonStringify(data) == <<"json", data>>
IsJson(text) == Len(text) = 2 /\ text[1] = "json"
\* A JSON.parse that returns something else than what was serialized.
JsonParse_First(json) == json[1]
JsonParse(json) == json[2]

\* JSON values that are not objects: null and a number, as texts of JSON.
JsonNumber == "42"
NonObjects == {Null, JsonNumber}

\* The empty string.
EmptyPlaintext == <<>>
\* A zero-length Buffer: an object, so not falsy and not a string.
EmptyBuffer == <<"buffer">>
\* plaintext.toString('utf-8') of the decrypted Buffer
ToUtf8String(buffer) == IF buffer = EmptyBuffer THEN EmptyPlaintext ELSE buffer
\* additionalData omitted
NoAdditionalData == "undefined"
\* A nonce is a number: 1, 2, ... are the 24-byte values randombytes_buf
\* returns, EmptyNonce is the empty string, ShortNonce a base64 string that
\* decodes to fewer bytes.
EmptyNonce == 0
ShortNonce == -1
NonceLength(nonce) ==
  IF nonce = EmptyNonce THEN 0
  ELSE IF nonce = ShortNonce THEN NONCE_LENGTH - 1
  ELSE NONCE_LENGTH
\* An empty ciphertext string.
EmptyCiphertext == [body |-> <<>>, tag |-> <<>>]

\* sodium.crypto_aead_xchacha20poly1305_ietf_encrypt: the XChaCha20 stream
\* applied to the plaintext, followed by the Poly1305 tag over the
\* associated data and that body, both keyed by key and nonce.
AeadEncrypt(plaintext, nonce, k, additionalData) ==
  LET body == <<"xchacha20", k, nonce, plaintext>>
  IN  [body |-> body, tag |-> <<"poly1305", k, nonce, additionalData, body>>]

\* sodium.crypto_aead_xchacha20poly1305_ietf_decrypt recomputes the tag and
\* compares it.
AeadVerifies(ciphertext, nonce, k, additionalData) ==
  ciphertext.tag = <<"poly1305", k, nonce, additionalData, ciphertext.body>>

\* The plaintext under the stream of a verified body.
AeadOpen(ciphertext) == ciphertext.body[4]

\* The bytes of key.getBuffer(): the derived bytes, which name the key
\* object, until the buffer is zeroed.
ZeroKey == "zeros"
getBuffer(k) == IF k \in zeroedKeys THEN ZeroKey ELSE k

\* encrypt, given the nonce generateNonce returns to it.
encrypt(plaintext, k, nonce, additionalData) ==
  IF plaintext = EmptyPlaintext
  THEN Throw("Error", "Plaintext cannot be empty")
  ELSE Return([ciphertext |-> AeadEncrypt(plaintext, nonce, getBuffer(k),
                                          additionalData),
               nonce |-> nonce,
               timestamp |-> now,
               version |-> EncryptionVersion])

\* decrypt that returns what is under the stream without verifying the tag.
decrypt_NoVerify(encryptedData, k, additionalData) ==
  IF encryptedData.ciphertext = EmptyCiphertext
     \/ encryptedData.nonce = EmptyNonce
  THEN Throw("Error", "Invalid encrypted data: missing ciphertext or nonce")
  ELSE IF NonceLength(encryptedData.nonce) # NONCE_LENGTH
  THEN Throw("Error", "Invalid nonce length")
  ELSE Return(ToUtf8String(AeadOpen(encryptedData.ciphertext)))

\* decrypt that hands every blob to the AEAD without looking at it first.
decrypt_NoChecks(encryptedData, k, additionalData) ==
  IF AeadVerifies(encryptedData.ciphertext, encryptedData.nonce,
                  getBuffer(k), additionalData)
  THEN Return(ToUtf8String(AeadOpen(encryptedData.ciphertext)))
  ELSE Throw("Error", "Decryption failed: invalid key or corrupted data")

\* decrypt
decrypt(encryptedData, k, additionalData) ==
  IF encryptedData.ciphertext = EmptyCiphertext
     \/ encryptedData.nonce = EmptyNonce
  THEN Throw("Error", "Invalid encrypted data: missing ciphertext or nonce")
  ELSE IF NonceLength(encryptedData.nonce) # NONCE_LENGTH
  THEN Throw("Error", "Invalid nonce length")
  ELSE IF AeadVerifies(encryptedData.ciphertext, encryptedData.nonce,
                       getBuffer(k), additionalData)
  THEN Return(ToUtf8String(AeadOpen(encryptedData.ciphertext)))
  ELSE Throw("Error", "Decryption failed: invalid key or corrupted data")

\* decrypt resolves: TRUE when the blob opens under the key.
Opens(encryptedData, k) == ~decrypt(encryptedData, k, NoAdditionalData).threw

\* encryptCredentials
encryptCredentials(data, k, nonce) ==
  encrypt(JsonStringify(data), k, nonce, NoAdditionalData)

\* decryptCredentials
decryptCredentials(encryptedData, k) ==
  LET json == decrypt(encryptedData, k, NoAdditionalData)
  IN  IF json.threw THEN json
      ELSE IF IsJson(json.value[1]) THEN Return(JsonParse(json.value[1]))
      ELSE Throw("Error",
                 "Failed to parse decrypted credentials: invalid JSON")

(* ------------------------------------------------------------------ *)
(* Key derivation                                                      *)
(* ------------------------------------------------------------------ *)

\* Master passwords a user may type; the vault of Boot was set up with
\* VaultPassword.
EmptyPassword == ""
VaultPassword == "p1"
Passwords == {EmptyPassword, VaultPassword, "p2"}

\* Salts generateSalt may return; the vault of Boot was set up with
\* VaultSalt. NoSalt is the salt argument left out.
VaultSalt == "s1"
SaltBytes == {VaultSalt, "s2"}
NoSalt == "undefined"

\* sodium.crypto_pwhash (Argon2id with the fixed ARGON2_PARAMS): a function
\* of password and salt without collisions on the passwords and salts
\* above; "k1" is the key of the vault of Boot.
crypto_pwhash(password, salt) ==
  CASE password = VaultPassword /\ salt = VaultSalt -> "k1"
    [] password # VaultPassword /\ salt = VaultSalt -> "k2"
    [] password = VaultPassword /\ salt # VaultSalt -> "k3"
    [] OTHER -> "k4"

\* deriveKey that draws a new salt whatever salt it is given.
deriveKey_FreshSalt(password, salt, fresh) ==
  IF password = EmptyPassword
  THEN Throw("Error", "Password cannot be empty")
  ELSE Return([key |-> crypto_pwhash(password, fresh), salt |-> fresh])

\* deriveKey, given the salt generateSalt returns to it when it asks.
deriveKey(password, salt, fresh) ==
  IF password = EmptyPassword
  THEN Throw("Error", "Password cannot be empty")
  ELSE LET actualSalt == IF salt = NoSalt THEN fresh ELSE salt
       IN  Return([key |-> crypto_pwhash(password, actualSalt),
                   salt |-> actualSalt])

\* sodium.sodium_memcmp of two buffers
sodium_memcmp(a, b) == a = b

\* verifyPassword without its try / catch.
verifyPassword_NoCatch(password, salt, expectedKey, fresh) ==
  LET derived == deriveKey(password, salt, fresh)
  IN  IF derived.threw THEN derived
      ELSE Return(sodium_memcmp(derived.value[1].key,
                                getBuffer(expectedKey)))

\* verifyPassword: the key it derives is a new object, whose buffer holds
\* the derived bytes.
verifyPassword(password, salt, expectedKey, fresh) ==
  LET derived == deriveKey(password, salt, fresh)
  IN  IF derived.threw THEN Return(FALSE)
      ELSE Return(sodium_memcmp(derived.value[1].key,
                                getBuffer(expectedKey)))

\* exportSalt: salt.toString('base64')
exportSalt(salt) == <<"base64", salt>>

\* importSalt with the characters taken as the bytes.
importSalt_Raw(saltString) == saltString

\* importSalt: Buffer.from(saltString, 'base64')
importSalt(saltString) == saltString[2]

\* clearKey: sodium_memzero of key.getBuffer().
clearKey(k) ==
  /\ zeroedKeys' = zeroedKeys \cup {k}
  /\ UNCHANGED <<enteredPassword, calls, vaultVars, sessionVars, bgVars, timerVars, bgTimerVars, now,
                 chromeRuntime, storedSettings, toBackground, toPopup, tasks,
                 dbVars, storeVars, histVars>>

(* ------------------------------------------------------------------ *)
(* Session store (useSessionStore)                                     *)
(* ------------------------------------------------------------------ *)

\* The session store's state together with the popup's timers, as one value
\* that the store's functions transform.
Session ==
  [isActive |-> isActive,
   lastActivityTime |-> lastActivityTime,
   lockTimeoutMinutes |-> lockTimeoutMinutes,
   autoLockTimerId |-> autoLockTimerId,
   liveTimers |-> liveTimers]

SetSession(s) ==
  /\ isActive' = s.isActive
  /\ lastActivityTime' = s.lastActivityTime
  /\ lockTimeoutMinutes' = s.lockTimeoutMinutes
  /\ autoLockTimerId' = s.autoLockTimerId
  /\ liveTimers' = s.liveTimers

\* Handles setInterval can return: one that names no live timer.
FreeTimers(live) == (1..MaxTimers) \ live

\* loadSettings: the stored sessionSettings, or DEFAULT_SESSION_SETTINGS.
loadSettings ==
  IF storedSettings # NoSettings THEN storedSettings
  ELSE DefaultLockTimeoutMinutes

\* stopAutoLockTimer
stopAutoLockTimer(s) ==
  IF s.autoLockTimerId # NoTimer
  THEN [s EXCEPT !.liveTimers = @ \ {s.autoLockTimerId},
                 !.autoLockTimerId = NoTimer]
  ELSE s

\* startAutoLockTimer without clearing the existing timer.
startAutoLockTimer_NoStop(s) ==
  LET timerId == Min(FreeTimers(s.liveTimers))
  IN  [s EXCEPT !.liveTimers = @ \cup {timerId},
                !.autoLockTimerId = timerId]

\* startAutoLockTimer
startAutoLockTimer(s) ==
  LET timerId == Min(FreeTimers(s.liveTimers))
      s1 == IF s.autoLockTimerId # NoTimer THEN stopAutoLockTimer(s) ELSE s
  IN  [s1 EXCEPT !.liveTimers = @ \cup {timerId},
                 !.autoLockTimerId = timerId]

\* setInterval can hand out a handle.
CanStartTimer(s) == FreeTimers(s.liveTimers) # {}

\* The set(...) that ends initializeSession, once loadSettings has resolved.
initializeSession(s) ==
  [s EXCEPT !.lockTimeoutMinutes = loadSettings,
            !.isActive = TRUE,
            !.lastActivityTime = now]

\* updateActivity of the session store
sessionUpdateActivity(s) == [s EXCEPT !.lastActivityTime = now]

\* clearSession
clearSession(s) ==
  [stopAutoLockTimer(s) EXCEPT !.isActive = FALSE,
                               !.lastActivityTime = now]

\* inactiveTime >= timeoutMs with the timeout taken as seconds.
IsInactive_Seconds(s) ==
  now - s.lastActivityTime >= s.lockTimeoutMinutes * 1000

\* checkAndLockIfInactive: inactiveTime >= timeoutMs
IsInactive(s) ==
  now - s.lastActivityTime >= TimeoutMs(s.lockTimeoutMinutes)

\* setLockTimeout without its range validation.
ValidatedMinutes_NoClamp(minutes) == minutes

\* Math.max(1, Math.min(60, minutes))
ValidatedMinutes(minutes) ==
  LET capped == IF minutes < MaxLockTimeoutMinutes THEN minutes
                ELSE MaxLockTimeoutMinutes
  IN  IF capped > MinLockTimeoutMinutes THEN capped
      ELSE MinLockTimeoutMinutes

(* ------------------------------------------------------------------ *)
(* Database (VaultDatabase): a table is a function from primary keys   *)
(* to rows                                                             *)
(* ------------------------------------------------------------------ *)

EmptyTable == <<>>

RECURSIVE SortedSeq(_)
\* The elements of a set of keys in primary-key order (toArray).
SortedSeq(S) ==
  IF S = {} THEN <<>>
  ELSE LET m == Min(S) IN <<m>> \o SortedSeq(S \ {m})

Put(table, id, row) ==
  [i \in DOMAIN table \cup {id} |-> IF i = id THEN row ELSE table[i]]

Delete(table, id) == [i \in DOMAIN table \ {id} |-> table[i]]

\* db.updateLastAccessed: metadata.update('default', {lastAccessedAt})
\* changes nothing when the row is missing.
\* updateLastAccessed that stamps createdAt as well.
updateLastAccessed_Created(metadata) ==
  [i \in DOMAIN metadata |-> [metadata[i] EXCEPT !.lastAccessedAt = now,
                                                !.createdAt = now]]

updateLastAccessed(metadata) ==
  [i \in DOMAIN metadata |-> [metadata[i] EXCEPT !.lastAccessedAt = now]]

\* db.isInitialized: metadata?.initialized ?? false
isInitialized ==
  IF "default" \in DOMAIN dbMetadata THEN dbMetadata["default"].initialized
  ELSE FALSE

\* No 'rw' transaction is open.
NoTx ==
  [open |-> FALSE, scope |-> {}, cleared |-> {}, before |-> <<>>,
   handle |-> Null]

\* The scope of db.clearAll's transaction when it is not in one.
clearAllScope_None == {}

\* The scope of db.clearAll's transaction:
\* this.transaction('rw', this.credentials, this.folders, this.metadata, ...)
clearAllScope == {"credentials", "folders", "metadata"}

\* A table in the scope of an open 'rw' transaction is held by it: another
\* operation on that table waits until the transaction has ended.
Available(tables) == \A table \in tables : ~(tx.open /\ table \in tx.scope)

\* An optional parameter left out (undefined); null is NoId.
NoArgument == -1

\* The rows a filtered collection's toArray() returns, in primary-key order.
ToArray(table, selected) ==
  LET ids == SortedSeq(selected)
  IN  [n \in 1..Len(ids) |-> table[ids[n]]]

\* VaultStorage.getCredential: the row (as a one-element sequence), or
\* undefined (the empty sequence).
getCredential(id) ==
  IF id \in DOMAIN dbCredentials THEN <<dbCredentials[id]>> ELSE <<>>

\* getAllCredentials where null selects like undefined.
getAllCredentialsIn_NullIsAll(folderId) ==
  LET notDeleted == {i \in DOMAIN dbCredentials : ~dbCredentials[i].deleted}
  IN  ToArray(dbCredentials,
              IF folderId # NoArgument /\ folderId # NoId
              THEN {i \in notDeleted : dbCredentials[i].folderId = folderId}
              ELSE notDeleted)

\* VaultStorage.getAllCredentials(folderId)
getAllCredentialsIn(folderId) ==
  LET notDeleted == {i \in DOMAIN dbCredentials : ~dbCredentials[i].deleted}
  IN  ToArray(dbCredentials,
              IF folderId # NoArgument
              THEN {i \in notDeleted : dbCredentials[i].folderId = folderId}
              ELSE notDeleted)

\* VaultStorage.getAllCredentials(): the rows with deleted = false.
getAllCredentials == getAllCredentialsIn(NoArgument)

\* VaultStorage.getCredentialData: getCredential, then decryptCredentials.
getCredentialData(h, id) ==
  IF getCredential(id) = <<>>
  THEN Throw("CredentialNotFoundError", "Credential not found")
  ELSE decryptCredentials(getCredential(id)[1].encryptedData, h)

\* VaultStorage.getFolder
getFolder(id) ==
  IF id \in DOMAIN dbFolders THEN <<dbFolders[id]>> ELSE <<>>

\* VaultStorage.getAllFolders(parentId)
getAllFolders(parentId) ==
  LET notDeleted == {i \in DOMAIN dbFolders : ~dbFolders[i].deleted}
  IN  ToArray(dbFolders,
              IF parentId # NoArgument
              THEN {i \in notDeleted : dbFolders[i].parentId = parentId}
              ELSE notDeleted)

(* ------------------------------------------------------------------ *)
(* Vault store (useVaultStore)                                         *)
(* ------------------------------------------------------------------ *)

IdleTask ==
  [kind |-> "idle", pc |-> "idle", key |-> Null, todo |-> <<>>, done |-> <<>>]

FreeSlots == {t \in 1..MaxTasks : tasks[t].kind = "idle"}

Start(kind, pc, k) ==
  tasks' = [tasks EXCEPT ![Min(FreeSlots)] =
              [kind |-> kind, pc |-> pc, key |-> k,
               todo |-> <<>>, done |-> <<>>]]

\* if (typeof chrome !== 'undefined' && 'runtime' in chrome)
\*   void chrome.runtime.sendMessage({ type })
SendToBackground(type) ==
  IF chromeRuntime
  THEN /\ Len(toBackground) < MaxQueue
       /\ toBackground' = Append(toBackground, type)
  ELSE UNCHANGED toBackground

\* A user action at the current time: it continues a run of actions that
\* each came sooner than the lock timeout after the one before, or (on a
\* locked vault) starts a new run.
UserActs ==
  /\ lastUserActivity' = now
  /\ activityGapsShort' =
       IF isUnlocked
       THEN /\ activityGapsShort
            /\ now - lastUserActivity < TimeoutMs(lockTimeoutMinutes)
       ELSE TRUE

\* setKey
setKey(k) ==
  /\ FreeSlots # {}
  /\ CanStartTimer(Session)
  /\ key' = k
  /\ isUnlocked' = TRUE
  /\ Start("setKey", "initializeSession", k)
  /\ SetSession(startAutoLockTimer(Session))
  /\ SendToBackground("vault-unlock")
  /\ UserActs
  /\ UNCHANGED <<credentials, isLoading, error, searchQuery,
                 selectedCredentialId, bgVars, bgTimerVars, now,
                 hostVars, storedSettings, toPopup, dbVars, storeVars,
                 autoLockEvents, staleKeyUse, lastOp, lastWrite, lastTick>>

\* unlock, up to its await of decryptAllCredentials
unlock(k) ==
  /\ FreeSlots # {}
  /\ key' = k
  /\ isUnlocked' = TRUE
  /\ isLoading' = TRUE
  /\ error' = Null
  /\ Start("unlock", "getAllCredentials", k)
  /\ UserActs
  /\ UNCHANGED <<credentials, searchQuery, selectedCredentialId, sessionVars,
                 bgVars, timerVars, bgTimerVars, now, hostVars,
                 storedSettings, toBackground, toPopup, dbVars, storeVars,
                 autoLockEvents, staleKeyUse, lastOp, lastWrite, lastTick>>

\* The set(...) of lock: clear sensitive data from memory.
ClearVault ==
  /\ isUnlocked' = FALSE
  /\ key' = Null
  /\ credentials' = <<>>
  /\ searchQuery' = ""
  /\ selectedCredentialId' = NoId
  /\ error' = Null
  /\ UNCHANGED isLoading

\* lock
lock ==
  /\ SetSession(clearSession(Session))
  /\ ClearVault
  /\ SendToBackground("vault-lock")
  /\ UNCHANGED <<bgVars, bgTimerVars, now, hostVars, storedSettings,
                 toPopup, tasks, dbVars, storeVars, histVars>>

\* loadCredentials, up to its await of decryptAllCredentials
loadCredentials ==
  /\ IF key = Null
     THEN /\ error' = "Vault is locked"
          /\ UNCHANGED <<isLoading, tasks>>
     ELSE /\ FreeSlots # {}
          /\ isLoading' = TRUE
          /\ error' = Null
          /\ Start("loadCredentials", "getAllCredentials", key)
  /\ UNCHANGED <<isUnlocked, key, credentials, searchQuery,
                 selectedCredentialId, sessionVars, bgVars, timerVars,
                 bgTimerVars, now, hostVars, storedSettings,
                 toBackground, toPopup, dbVars, storeVars, histVars>>

\* The end of decryptAllCredentials and what follows it in its caller up to
\* the next await: set({credentials, isLoading: false}), and for unlock the
\* call of initializeSession.
FinishLoad(t, decryptedCredentials) ==
  /\ credentials' = decryptedCredentials
  /\ isLoading' = FALSE
  /\ tasks' = [tasks EXCEPT ![t] =
                 IF tasks[t].kind = "unlock"
                 THEN [@ EXCEPT !.pc = "initializeSession",
                                !.todo = <<>>, !.done = <<>>]
                 ELSE IdleTask]

\* storage.getAllCredentials() resolves inside decryptAllCredentials.
getAllCredentialsResolves(t) ==
  /\ tasks[t].pc = "getAllCredentials"
  /\ dbMetadata' = updateLastAccessed(dbMetadata)
  /\ LET allCredentials == getAllCredentials
     IN  IF allCredentials = <<>>
         THEN FinishLoad(t, <<>>)
         ELSE /\ tasks' = [tasks EXCEPT ![t].pc = "getCredentialData",
                                        ![t].todo = allCredentials]
              /\ UNCHANGED <<credentials, isLoading>>
  /\ UNCHANGED <<isUnlocked, key, error, searchQuery, selectedCredentialId,
                 sessionVars, bgVars, timerVars, bgTimerVars, now,
                 hostVars, storedSettings, toBackground, toPopup,
                 dbCredentials, dbFolders, tx, storeVars, histVars>>

\* storage.getAllCredentials() rejects (the database cannot be read): the
\* catch of unlock / loadCredentials records the error.
getAllCredentialsRejects(t) ==
  /\ tasks[t].pc = "getAllCredentials"
  /\ error' = "Failed to load credentials"
  /\ isLoading' = FALSE
  /\ tasks' = [tasks EXCEPT ![t] = IdleTask]
  /\ UNCHANGED <<isUnlocked, key, credentials, searchQuery,
                 selectedCredentialId, sessionVars, bgVars, timerVars,
                 bgTimerVars, now, hostVars, storedSettings,
                 toBackground, toPopup, dbVars, storeVars, histVars>>

\* One turn of the loop of decryptAllCredentials: storage.getCredentialData
\* of the next listed credential resolves or throws (caught and logged).
getCredentialDataResolves(t) ==
  /\ tasks[t].pc = "getCredentialData"
  /\ LET credential == Head(tasks[t].todo)
         found == credential.id \in DOMAIN dbCredentials
         stored == dbCredentials[credential.id]
         ok == found /\ Opens(stored.encryptedData, tasks[t].key)
         decryptedCredentials ==
           IF ok
           THEN Append(tasks[t].done,
                       [data |-> decryptCredentials(stored.encryptedData,
                                                    tasks[t].key).value[1],
                        id |-> credential.id,
                        createdAt |-> credential.createdAt,
                        updatedAt |-> credential.updatedAt])
           ELSE tasks[t].done
     IN  /\ dbMetadata' = IF found THEN updateLastAccessed(dbMetadata)
                          ELSE dbMetadata
         /\ staleKeyUse' = (staleKeyUse \/ (found /\ key = Null))
         /\ IF Len(tasks[t].todo) = 1
            THEN FinishLoad(t, decryptedCredentials)
            ELSE /\ tasks' = [tasks EXCEPT ![t].todo = Tail(@),
                                           ![t].done = decryptedCredentials]
                 /\ UNCHANGED <<credentials, isLoading>>
  /\ UNCHANGED <<isUnlocked, key, error, searchQuery, selectedCredentialId,
                 sessionVars, bgVars, timerVars, bgTimerVars, now,
                 hostVars, storedSettings, toBackground, toPopup,
                 dbCredentials, dbFolders, tx, storeVars, autoLockEvents,
                 lastUserActivity, lastOp, lastWrite, lastTick, activityGapsShort>>

\* initializeSession resolves: its set(...), and for unlock the rest of the
\* try block (startAutoLockTimer, notify the background script).
initializeSessionResolves(t) ==
  /\ tasks[t].pc = "initializeSession"
  /\ IF tasks[t].kind = "unlock"
     THEN /\ CanStartTimer(Session)
          /\ SetSession(startAutoLockTimer(initializeSession(Session)))
          /\ SendToBackground("vault-unlock")
     ELSE /\ SetSession(initializeSession(Session))
          /\ UNCHANGED toBackground
  /\ tasks' = [tasks EXCEPT ![t] = IdleTask]
  /\ UNCHANGED <<vaultVars, bgVars, bgTimerVars, now, hostVars,
                 storedSettings, toPopup, dbVars, storeVars, histVars>>

\* The user interactions below reach the store from the popup's list view,
\* which is rendered (and listens for activity) only while isUnlocked.
Interaction ==
  /\ isUnlocked
  /\ SetSession(sessionUpdateActivity(Session))
  /\ UserActs
  /\ UNCHANGED <<isUnlocked, key, credentials, isLoading, error, bgVars,
                 bgTimerVars, now, hostVars, storedSettings,
                 toBackground, toPopup, tasks, dbVars, storeVars,
                 autoLockEvents, staleKeyUse, lastOp, lastWrite, lastTick>>

\* searchCredentials
searchCredentials(query) ==
  /\ searchQuery' = query
  /\ selectedCredentialId' = NoId
  /\ Interaction

\* selectCredential
selectCredential(id) ==
  /\ selectedCredentialId' = id
  /\ UNCHANGED searchQuery
  /\ Interaction

\* copyToClipboard, when navigator.clipboard.writeText resolves
copyToClipboard ==
  /\ UNCHANGED <<searchQuery, selectedCredentialId>>
  /\ Interaction

\* updateActivity of the vault store (mousedown, keydown, scroll, touchstart)
updateActivity ==
  /\ UNCHANGED <<searchQuery, selectedCredentialId>>
  /\ Interaction

\* setLockTimeout without its saveSettings.
setLockTimeout_NoSave(minutes) ==
  /\ lockTimeoutMinutes' = ValidatedMinutes(minutes)
  /\ UNCHANGED <<vaultVars, isActive, lastActivityTime, autoLockTimerId,
                 bgVars, timerVars, bgTimerVars, now, hostVars,
                 storedSettings, toBackground, toPopup, tasks, dbVars,
                 storeVars, histVars>>

\* setLockTimeout, with saveSettings
setLockTimeout(minutes) ==
  /\ lockTimeoutMinutes' = ValidatedMinutes(minutes)
  /\ storedSettings' = ValidatedMinutes(minutes)
  /\ UNCHANGED <<vaultVars, isActive, lastActivityTime, autoLockTimerId,
                 bgVars, timerVars, bgTimerVars, now, hostVars,
                 toBackground, toPopup, tasks, dbVars, storeVars, histVars>>

\* startAutoLockTimer, stopAutoLockTimer and clearSession called on the
\* session store itself.
StartAutoLockTimerCall ==
  /\ CanStartTimer(Session)
  /\ SetSession(startAutoLockTimer(Session))
  /\ UNCHANGED <<vaultVars, bgVars, bgTimerVars, now, hostVars,
                 storedSettings, toBackground, toPopup, tasks, dbVars,
                 storeVars, histVars>>

StopAutoLockTimerCall ==
  /\ SetSession(stopAutoLockTimer(Session))
  /\ UNCHANGED <<vaultVars, bgVars, bgTimerVars, now, hostVars,
                 storedSettings, toBackground, toPopup, tasks, dbVars,
                 storeVars, histVars>>

ClearSessionCall ==
  /\ SetSession(clearSession(Session))
  /\ UNCHANGED <<vaultVars, bgVars, bgTimerVars, now, hostVars,
                 storedSettings, toBackground, toPopup, tasks, dbVars,
                 storeVars, histVars>>

\* lock() as run by a listener of the popup.
LockFromListener ==
  /\ SetSession(clearSession(Session))
  /\ ClearVault
  /\ SendToBackground("vault-lock")

\* checkAndLockIfInactive with the test of the timeout left out.
checkAndLockIfInactive_NoTimeoutTest ==
  /\ IF ~isActive
     THEN /\ lastTick' = "inactive"
          /\ UNCHANGED <<vaultVars, sessionVars, timerVars, toBackground,
                         autoLockEvents>>
     ELSE /\ lastTick' = "expired"
          /\ autoLockEvents' = autoLockEvents + 1
          /\ IF isUnlocked
             THEN /\ ClearVault
                  /\ SendToBackground("vault-lock")
             ELSE UNCHANGED <<vaultVars, toBackground>>
          /\ SetSession(clearSession(Session))
  /\ UNCHANGED <<bgVars, bgTimerVars, now, hostVars, storedSettings,
                 toPopup, tasks, dbVars, storeVars, lastUserActivity,
                 staleKeyUse, lastOp, lastWrite, activityGapsShort>>

\* checkAndLockIfInactive, the callback of the session store's interval
\* timer. dispatchEvent runs the 'vault-auto-lock' listener of the vault
\* store synchronously (lock() if isUnlocked), then clearSession runs.
checkAndLockIfInactive ==
  /\ IF ~isActive
     THEN /\ lastTick' = "inactive"
          /\ UNCHANGED <<vaultVars, sessionVars, timerVars, toBackground,
                         autoLockEvents>>
     ELSE IF IsInactive(Session)
     THEN /\ lastTick' = "expired"
          /\ autoLockEvents' = autoLockEvents + 1
          /\ IF isUnlocked
             THEN /\ ClearVault
                  /\ SendToBackground("vault-lock")
                  /\ SetSession(clearSession(clearSession(Session)))
             ELSE /\ UNCHANGED <<vaultVars, toBackground>>
                  /\ SetSession(clearSession(Session))
     ELSE /\ lastTick' = "recent"
          /\ UNCHANGED <<vaultVars, sessionVars, timerVars, toBackground,
                         autoLockEvents>>
  /\ UNCHANGED <<bgVars, bgTimerVars, now, hostVars, storedSettings,
                 toPopup, tasks, dbVars, storeVars, lastUserActivity,
                 staleKeyUse, lastOp, lastWrite, activityGapsShort>>

\* A live interval timer of the popup fires.
SessionTick ==
  /\ liveTimers # {}
  /\ autoLockEvents < MaxAutoLockEvents
  /\ checkAndLockIfInactive

\* The 'vault-locked' listener of the vault store.
onVaultLocked ==
  /\ toPopup # <<>>
  /\ toPopup' = Tail(toPopup)
  /\ IF isUnlocked
     THEN LockFromListener
     ELSE UNCHANGED <<vaultVars, sessionVars, timerVars, toBackground>>
  /\ UNCHANGED <<bgVars, bgTimerVars, now, hostVars, storedSettings,
                 tasks, dbVars, storeVars, histVars>>

(* ------------------------------------------------------------------ *)
(* VaultStorage: the calls on an instance, each taken whole             *)
(* ------------------------------------------------------------------ *)

\* createVaultStorage(key) by a caller that holds the vault store's key, as
\* unlock and loadCredentials do. An instance is named by the key it keeps.
createVaultStorage ==
  /\ key # Null
  /\ storages' = storages \cup {key}
  /\ UNCHANGED <<vaultVars, sessionVars, bgVars, timerVars, bgTimerVars, now,
                 hostVars, storedSettings, toBackground, toPopup, tasks,
                 dbVars, nextId, nextNonce, histVars>>

\* createVaultStorage(k) by a caller that derived k itself.
createVaultStorageWith(k) ==
  /\ k \notin storages
  /\ storages' = storages \cup {k}
  /\ UNCHANGED <<vaultVars, sessionVars, bgVars, timerVars, bgTimerVars, now,
                 hostVars, storedSettings, toBackground, toPopup, tasks,
                 dbVars, nextId, nextNonce, histVars>>

\* How a call on instance h ended: the call, its id argument (for the
\* getAll calls the folder / parent argument, for the create calls the id
\* generated), what it settled with, and whether the vault store was locked
\* (held no key) when the call was made.
Returns(op, h, id, settled) ==
  lastOp' = [op |-> op,
             handle |-> h,
             id |-> id,
             result |-> IF settled.threw THEN settled.name ELSE "ok",
             message |-> settled.message,
             value |-> settled.value,
             locked |-> key = Null]

\* A Promise<void> that resolves.
Done == [threw |-> FALSE, name |-> "", message |-> "", value |-> <<>>]

\* What no call on an instance changes.
StorageFrame ==
  UNCHANGED <<vaultVars, sessionVars, bgVars, timerVars, bgTimerVars, now,
              hostVars, storedSettings, toBackground, toPopup, tasks,
              tx, storages, autoLockEvents, lastUserActivity, staleKeyUse,
              lastTick, activityGapsShort>>

Touch(found) ==
  dbMetadata' = IF found THEN updateLastAccessed(dbMetadata) ELSE dbMetadata

\* The indexes of the credentials table ('id, folderId, deleted, createdAt,
\* updatedAt').
CredentialIndexes == {"id", "folderId", "deleted", "createdAt", "updatedAt"}

\* createCredential that also keeps the title beside the sealed payload.
Storage_createCredential_PlainTitle(h, data, folderId) ==
  /\ Available({"credentials", "metadata"})
  /\ nextId <= MaxIds /\ nextNonce <= MaxNonces
  /\ LET credential ==
           [id |-> nextId,
            folderId |-> folderId,
            title |-> data,
            encryptedData |-> encryptCredentials(data, h, nextNonce).value[1],
            createdAt |-> now,
            updatedAt |-> now,
            deleted |-> FALSE]
     IN  /\ dbCredentials' = Put(dbCredentials, nextId, credential)
         /\ Returns("createCredential", h, nextId, Return(credential))
  /\ lastWrite' = Put(lastWrite, nextId, [data |-> data, key |-> h])
  /\ nextId' = nextId + 1
  /\ nextNonce' = nextNonce + 1
  /\ Touch(TRUE)
  /\ UNCHANGED dbFolders
  /\ StorageFrame

\* createCredential
Storage_createCredential(h, data, folderId) ==
  /\ Available({"credentials", "metadata"})
  /\ nextId <= MaxIds /\ nextNonce <= MaxNonces
  /\ LET credential ==
           [id |-> nextId,
            folderId |-> folderId,
            encryptedData |-> encryptCredentials(data, h, nextNonce).value[1],
            createdAt |-> now,
            updatedAt |-> now,
            deleted |-> FALSE]
     IN  /\ dbCredentials' = Put(dbCredentials, nextId, credential)
         /\ Returns("createCredential", h, nextId, Return(credential))
  /\ lastWrite' = Put(lastWrite, nextId, [data |-> data, key |-> h])
  /\ nextId' = nextId + 1
  /\ nextNonce' = nextNonce + 1
  /\ Touch(TRUE)
  /\ UNCHANGED dbFolders
  /\ StorageFrame

\* getCredential
Storage_getCredential(h, id) ==
  /\ Available({"credentials", "metadata"})
  /\ Touch(id \in DOMAIN dbCredentials)
  /\ Returns("getCredential", h, id,
             [Done EXCEPT !.value = getCredential(id)])
  /\ UNCHANGED <<dbCredentials, dbFolders, nextId, nextNonce, lastWrite>>
  /\ StorageFrame

\* getCredentialData
Storage_getCredentialData(h, id) ==
  /\ Available({"credentials", "metadata"})
  /\ Touch(id \in DOMAIN dbCredentials)
  /\ Returns("getCredentialData", h, id, getCredentialData(h, id))
  /\ UNCHANGED <<dbCredentials, dbFolders, nextId, nextNonce, lastWrite>>
  /\ StorageFrame

\* getAllCredentials
Storage_getAllCredentials(h, folderId) ==
  /\ Available({"credentials", "metadata"})
  /\ Touch(TRUE)
  /\ Returns("getAllCredentials", h, folderId,
             [Done EXCEPT !.value = getAllCredentialsIn(folderId)])
  /\ UNCHANGED <<dbCredentials, dbFolders, nextId, nextNonce, lastWrite>>
  /\ StorageFrame

\* updateCredential that seals the new payload with the nonce of the
\* payload it replaces.
Storage_updateCredential_KeepNonce(h, id, data) ==
  /\ Available({"credentials", "metadata"})
  /\ id \in DOMAIN dbCredentials
  /\ dbCredentials' =
       [dbCredentials EXCEPT
          ![id].encryptedData =
            encryptCredentials(data, h, @.nonce).value[1],
          ![id].updatedAt = now]
  /\ lastWrite' = Put(lastWrite, id, [data |-> data, key |-> h])
  /\ Touch(TRUE)
  /\ Returns("updateCredential", h, id, Done)
  /\ UNCHANGED <<dbFolders, nextId, nextNonce>>
  /\ StorageFrame

\* updateCredential that stamps the row as created anew.
Storage_updateCredential_Recreated(h, id, data) ==
  /\ Available({"credentials", "metadata"})
  /\ nextNonce <= MaxNonces
  /\ IF id \in DOMAIN dbCredentials
     THEN /\ dbCredentials' =
               [dbCredentials EXCEPT
                  ![id].encryptedData =
                    encryptCredentials(data, h, nextNonce).value[1],
                  ![id].updatedAt = now,
                  ![id].createdAt = now]
          /\ lastWrite' = Put(lastWrite, id, [data |-> data, key |-> h])
          /\ nextNonce' = nextNonce + 1
          /\ Touch(TRUE)
          /\ Returns("updateCredential", h, id, Done)
     ELSE /\ Returns("updateCredential", h, id,
                     Throw("CredentialNotFoundError", "Credential not found"))
          /\ UNCHANGED <<dbCredentials, dbMetadata, nextNonce, lastWrite>>
  /\ UNCHANGED <<dbFolders, nextId>>
  /\ StorageFrame

\* updateCredential that also brings a soft-deleted row back.
Storage_updateCredential_Restore(h, id, data) ==
  /\ Available({"credentials", "metadata"})
  /\ nextNonce <= MaxNonces
  /\ IF id \in DOMAIN dbCredentials
     THEN /\ dbCredentials' =
               [dbCredentials EXCEPT
                  ![id].encryptedData =
                    encryptCredentials(data, h, nextNonce).value[1],
                  ![id].updatedAt = now,
                  ![id].deleted = FALSE]
          /\ lastWrite' = Put(lastWrite, id, [data |-> data, key |-> h])
          /\ nextNonce' = nextNonce + 1
          /\ Touch(TRUE)
          /\ Returns("updateCredential", h, id, Done)
     ELSE /\ Returns("updateCredential", h, id,
                     Throw("CredentialNotFoundError", "Credential not found"))
          /\ UNCHANGED <<dbCredentials, dbMetadata, nextNonce, lastWrite>>
  /\ UNCHANGED <<dbFolders, nextId>>
  /\ StorageFrame

\* updateCredential that stores a new row when there is none under id.
Storage_updateCredential_Upsert(h, id, data) ==
  /\ Available({"credentials", "metadata"})
  /\ nextNonce <= MaxNonces
  /\ dbCredentials' =
       Put(dbCredentials, id,
           [id |-> id,
            folderId |-> NoId,
            encryptedData |-> encryptCredentials(data, h, nextNonce).value[1],
            createdAt |-> now,
            updatedAt |-> now,
            deleted |-> FALSE])
  /\ lastWrite' = Put(lastWrite, id, [data |-> data, key |-> h])
  /\ nextNonce' = nextNonce + 1
  /\ Touch(TRUE)
  /\ Returns("updateCredential", h, id, Done)
  /\ UNCHANGED <<dbFolders, nextId>>
  /\ StorageFrame

\* updateCredential
Storage_updateCredential(h, id, data) ==
  /\ Available({"credentials", "metadata"})
  /\ nextNonce <= MaxNonces
  /\ IF id \in DOMAIN dbCredentials
     THEN /\ dbCredentials' =
               [dbCredentials EXCEPT
                  ![id].encryptedData =
                    encryptCredentials(data, h, nextNonce).value[1],
                  ![id].updatedAt = now]
          /\ lastWrite' = Put(lastWrite, id, [data |-> data, key |-> h])
          /\ nextNonce' = nextNonce + 1
          /\ Touch(TRUE)
          /\ Returns("updateCredential", h, id, Done)
     ELSE /\ Returns("updateCredential", h, id,
                     Throw("CredentialNotFoundError", "Credential not found"))
          /\ UNCHANGED <<dbCredentials, dbMetadata, nextNonce, lastWrite>>
  /\ UNCHANGED <<dbFolders, nextId>>
  /\ StorageFrame

\* deleteCredential that removes the row.
Storage_deleteCredential_Hard(h, id) ==
  /\ Available({"credentials", "metadata"})
  /\ dbCredentials' = Delete(dbCredentials, id)
  /\ Touch(TRUE)
  /\ Returns("deleteCredential", h, id, Done)
  /\ UNCHANGED <<dbFolders, nextId, nextNonce, lastWrite>>
  /\ StorageFrame

\* deleteCredential (soft delete)
Storage_deleteCredential(h, id) ==
  /\ Available({"credentials", "metadata"})
  /\ IF id \in DOMAIN dbCredentials
     THEN /\ dbCredentials' = [dbCredentials EXCEPT ![id].deleted = TRUE,
                                                   ![id].updatedAt = now]
          /\ Touch(TRUE)
          /\ Returns("deleteCredential", h, id, Done)
     ELSE /\ Returns("deleteCredential", h, id,
                     Throw("CredentialNotFoundError", "Credential not found"))
          /\ UNCHANGED <<dbCredentials, dbMetadata>>
  /\ UNCHANGED <<dbFolders, nextId, nextNonce, lastWrite>>
  /\ StorageFrame

\* permanentlyDeleteCredential
Storage_permanentlyDeleteCredential(h, id) ==
  /\ Available({"credentials", "metadata"})
  /\ dbCredentials' = Delete(dbCredentials, id)
  /\ Touch(TRUE)
  /\ Returns("permanentlyDeleteCredential", h, id, Done)
  /\ UNCHANGED <<dbFolders, nextId, nextNonce, lastWrite>>
  /\ StorageFrame

\* createFolder
Storage_createFolder(h, name, parentId) ==
  /\ Available({"folders", "metadata"})
  /\ nextId <= MaxIds
  /\ LET folder ==
           [id |-> nextId, parentId |-> parentId, name |-> name,
            createdAt |-> now, updatedAt |-> now, deleted |-> FALSE]
     IN  /\ dbFolders' = Put(dbFolders, nextId, folder)
         /\ Returns("createFolder", h, nextId, Return(folder))
  /\ nextId' = nextId + 1
  /\ Touch(TRUE)
  /\ UNCHANGED <<dbCredentials, nextNonce, lastWrite>>
  /\ StorageFrame

\* getFolder
Storage_getFolder(h, id) ==
  /\ Available({"folders", "metadata"})
  /\ Touch(id \in DOMAIN dbFolders)
  /\ Returns("getFolder", h, id, [Done EXCEPT !.value = getFolder(id)])
  /\ UNCHANGED <<dbCredentials, dbFolders, nextId, nextNonce, lastWrite>>
  /\ StorageFrame

\* getAllFolders
Storage_getAllFolders(h, parentId) ==
  /\ Available({"folders", "metadata"})
  /\ Touch(TRUE)
  /\ Returns("getAllFolders", h, parentId,
             [Done EXCEPT !.value = getAllFolders(parentId)])
  /\ UNCHANGED <<dbCredentials, dbFolders, nextId, nextNonce, lastWrite>>
  /\ StorageFrame

\* updateFolder that also moves the folder under the folder named by its
\* own id.
Storage_updateFolder_Reparent(h, id, name) ==
  /\ Available({"folders", "metadata"})
  /\ id \in DOMAIN dbFolders
  /\ dbFolders' = [dbFolders EXCEPT ![id].name = name,
                                    ![id].parentId = id,
                                    ![id].updatedAt = now]
  /\ Touch(TRUE)
  /\ Returns("updateFolder", h, id, Done)
  /\ UNCHANGED <<dbCredentials, nextId, nextNonce, lastWrite>>
  /\ StorageFrame

\* updateFolder
Storage_updateFolder(h, id, name) ==
  /\ Available({"folders", "metadata"})
  /\ IF id \in DOMAIN dbFolders
     THEN /\ dbFolders' = [dbFolders EXCEPT ![id].name = name,
                                           ![id].updatedAt = now]
          /\ Touch(TRUE)
          /\ Returns("updateFolder", h, id, Done)
     ELSE /\ Returns("updateFolder", h, id,
                     Throw("FolderNotFoundError", "Folder not found"))
          /\ UNCHANGED <<dbFolders, dbMetadata>>
  /\ UNCHANGED <<dbCredentials, nextId, nextNonce, lastWrite>>
  /\ StorageFrame

\* deleteFolder (soft delete)
Storage_deleteFolder(h, id) ==
  /\ Available({"folders", "metadata"})
  /\ IF id \in DOMAIN dbFolders
     THEN /\ dbFolders' = [dbFolders EXCEPT ![id].deleted = TRUE,
                                           ![id].updatedAt = now]
          /\ Touch(TRUE)
          /\ Returns("deleteFolder", h, id, Done)
     ELSE /\ Returns("deleteFolder", h, id,
                     Throw("FolderNotFoundError", "Folder not found"))
          /\ UNCHANGED <<dbFolders, dbMetadata>>
  /\ UNCHANGED <<dbCredentials, nextId, nextNonce, lastWrite>>
  /\ StorageFrame

\* permanentlyDeleteFolder
Storage_permanentlyDeleteFolder(h, id) ==
  /\ Available({"folders", "metadata"})
  /\ dbFolders' = Delete(dbFolders, id)
  /\ Touch(TRUE)
  /\ Returns("permanentlyDeleteFolder", h, id, Done)
  /\ UNCHANGED <<dbCredentials, nextId, nextNonce, lastWrite>>
  /\ StorageFrame

\* isInitialized
Storage_isInitialized(h) ==
  /\ Available({"metadata"})
  /\ Returns("isInitialized", h, NoId, Return(isInitialized))
  /\ UNCHANGED <<dbCredentials, dbFolders, dbMetadata, nextId, nextNonce,
                 lastWrite>>
  /\ StorageFrame

\* db.initialize(salt): metadata.put of a whole new row under 'default'.
initialize(salt) ==
  Put(dbMetadata, "default",
      [id |-> "default", salt |-> salt, createdAt |-> now,
       lastAccessedAt |-> now, schemaVersion |-> 1, initialized |-> TRUE])

\* db.getMetadata: metadata.get('default')
getMetadata ==
  IF "default" \in DOMAIN dbMetadata THEN <<dbMetadata["default"]>> ELSE <<>>

\* initialize(salt)
Storage_initialize(h, salt) ==
  /\ Available({"metadata"})
  /\ dbMetadata' = initialize(salt)
  /\ Returns("initialize", h, NoId, Done)
  /\ UNCHANGED <<dbCredentials, dbFolders, nextId, nextNonce, lastWrite>>
  /\ StorageFrame

\* getMetadata
Storage_getMetadata(h) ==
  /\ Available({"metadata"})
  /\ Returns("getMetadata", h, NoId,
             [threw |-> FALSE, name |-> "", message |-> "",
              value |-> getMetadata])
  /\ UNCHANGED <<dbCredentials, dbFolders, dbMetadata, nextId, nextNonce,
                 lastWrite>>
  /\ StorageFrame

(* ------------------------------------------------------------------ *)
(* VaultStorage calls followed await by await: each step below runs    *)
(* one call up to its next await, so that other calls come in between  *)
(* ------------------------------------------------------------------ *)

IdleCall ==
  [op |-> "idle", pc |-> "idle", handle |-> Null, id |-> NoId, data |-> Null,
   existing |-> <<>>, applied |-> 0]

FreeCalls == {c \in 1..MaxCalls : calls[c].op = "idle"}

\* What a step of such a call leaves alone.
CallFrame ==
  UNCHANGED <<vaultVars, sessionVars, bgVars, timerVars, bgTimerVars, now,
              chromeRuntime, zeroedKeys, enteredPassword, storedSettings,
              toBackground, toPopup, tasks, dbFolders, tx, storages, nextId,
              autoLockEvents, lastUserActivity, staleKeyUse, lastTick,
              activityGapsShort>>

\* The call is entered and its first await, db.credentials.get(id),
\* resolves: updateCredential and deleteCredential throw when there is no
\* row.
Call_get(op, h, id, data) ==
  /\ FreeCalls # {}
  /\ Available({"credentials", "metadata"})
  /\ IF id \in DOMAIN dbCredentials
     THEN /\ calls' = [calls EXCEPT ![Min(FreeCalls)] =
                         [op |-> op, pc |-> "write", handle |-> h, id |-> id,
                          data |-> data, existing |-> getCredential(id),
                          applied |-> 0]]
          /\ UNCHANGED lastOp
     ELSE /\ Returns(op, h, id,
                     Throw("CredentialNotFoundError", "Credential not found"))
          /\ UNCHANGED calls
  /\ UNCHANGED <<dbCredentials, dbMetadata, nextNonce, lastWrite>>
  /\ CallFrame

\* Table.update(id, changes): the row under id with the changed fields, and
\* the number of rows changed; no row is made when there is none.
Update(table, id, changed) ==
  IF id \in DOMAIN table
  THEN [table |-> [table EXCEPT ![id] = changed], count |-> 1]
  ELSE [table |-> table, count |-> 0]

\* updateCredential goes on: encryptCredentials, then
\* db.credentials.update(id, {encryptedData, updatedAt}).
updateCredential_write(c) ==
  /\ calls[c].op = "updateCredential" /\ calls[c].pc = "write"
  /\ Available({"credentials", "metadata"})
  /\ nextNonce <= MaxNonces
  /\ LET id == calls[c].id
         encryptedData ==
           encryptCredentials(calls[c].data, calls[c].handle,
                              nextNonce).value[1]
         updated ==
           Update(dbCredentials, id,
                  IF id \in DOMAIN dbCredentials
                  THEN [dbCredentials[id] EXCEPT
                          !.encryptedData = encryptedData, !.updatedAt = now]
                  ELSE <<>>)
     IN  /\ dbCredentials' = updated.table
         /\ calls' = [calls EXCEPT ![c].pc = "touch",
                                   ![c].applied = updated.count]
         /\ lastWrite' = IF updated.count = 1
                         THEN Put(lastWrite, id, [data |-> calls[c].data,
                                                  key |-> calls[c].handle])
                         ELSE lastWrite
  /\ nextNonce' = nextNonce + 1
  /\ UNCHANGED <<dbMetadata, lastOp>>
  /\ CallFrame

\* deleteCredential that puts back the row it read, marked deleted.
deleteCredential_write_PutRead(c) ==
  /\ calls[c].op = "deleteCredential" /\ calls[c].pc = "write"
  /\ Available({"credentials", "metadata"})
  /\ dbCredentials' =
       Put(dbCredentials, calls[c].id,
           [calls[c].existing[1] EXCEPT !.deleted = TRUE, !.updatedAt = now])
  /\ calls' = [calls EXCEPT ![c].pc = "touch", ![c].applied = 1]
  /\ UNCHANGED <<dbMetadata, nextNonce, lastOp, lastWrite>>
  /\ CallFrame

\* deleteCredential goes on: db.credentials.update(id, {deleted, updatedAt}).
deleteCredential_write(c) ==
  /\ calls[c].op = "deleteCredential" /\ calls[c].pc = "write"
  /\ Available({"credentials", "metadata"})
  /\ LET id == calls[c].id
         updated ==
           Update(dbCredentials, id,
                  IF id \in DOMAIN dbCredentials
                  THEN [dbCredentials[id] EXCEPT
                          !.deleted = TRUE, !.updatedAt = now]
                  ELSE <<>>)
     IN  /\ dbCredentials' = updated.table
         /\ calls' = [calls EXCEPT ![c].pc = "touch",
                                   ![c].applied = updated.count]
  /\ UNCHANGED <<dbMetadata, nextNonce, lastOp, lastWrite>>
  /\ CallFrame

\* permanentlyDeleteCredential is entered and its first await,
\* db.credentials.delete(id), resolves.
permanentlyDeleteCredential_delete(h, id) ==
  /\ FreeCalls # {}
  /\ Available({"credentials", "metadata"})
  /\ dbCredentials' = Delete(dbCredentials, id)
  /\ calls' = [calls EXCEPT ![Min(FreeCalls)] =
                 [op |-> "permanentlyDeleteCredential", pc |-> "touch",
                  handle |-> h, id |-> id, data |-> Null,
                  existing |-> <<>>, applied |-> 0]]
  /\ UNCHANGED <<dbMetadata, nextNonce, lastOp, lastWrite>>
  /\ CallFrame

\* The last await of the three calls, db.updateLastAccessed(), resolves, and
\* the call with it.
Call_touch(c) ==
  /\ calls[c].pc = "touch"
  /\ Available({"credentials", "metadata"})
  /\ dbMetadata' = updateLastAccessed(dbMetadata)
  /\ Returns(calls[c].op, calls[c].handle, calls[c].id, Done)
  /\ calls' = [calls EXCEPT ![c] = IdleCall]
  /\ UNCHANGED <<dbCredentials, nextNonce, lastWrite>>
  /\ CallFrame

\* What a step of clearAll leaves alone.
ClearAllFrame ==
  UNCHANGED <<vaultVars, sessionVars, bgVars, timerVars, bgTimerVars, now,
              hostVars, storedSettings, toBackground, toPopup, tasks,
              storeVars, autoLockEvents, lastUserActivity, staleKeyUse,
              lastWrite, lastTick, activityGapsShort>>

\* clearAll: db.clearAll opens its transaction once the tables of its scope
\* are free.
Storage_clearAll(h) ==
  /\ ~tx.open
  /\ Available(clearAllScope)
  /\ tx' = [open |-> TRUE, scope |-> clearAllScope, cleared |-> {},
            before |-> <<dbCredentials, dbFolders, dbMetadata>>,
            handle |-> h]
  /\ UNCHANGED <<dbCredentials, dbFolders, dbMetadata, lastOp>>
  /\ ClearAllFrame

\* The next clear() of the transaction's callback: credentials, then
\* folders, then metadata.
clearAll_Clear ==
  /\ tx.open
  /\ tx.cleared # {"credentials", "folders", "metadata"}
  /\ IF "credentials" \notin tx.cleared
     THEN /\ dbCredentials' = EmptyTable
          /\ tx' = [tx EXCEPT !.cleared = @ \cup {"credentials"}]
          /\ UNCHANGED <<dbFolders, dbMetadata>>
     ELSE IF "folders" \notin tx.cleared
     THEN /\ dbFolders' = EmptyTable
          /\ tx' = [tx EXCEPT !.cleared = @ \cup {"folders"}]
          /\ UNCHANGED <<dbCredentials, dbMetadata>>
     ELSE /\ dbMetadata' = EmptyTable
          /\ tx' = [tx EXCEPT !.cleared = @ \cup {"metadata"}]
          /\ UNCHANGED <<dbCredentials, dbFolders>>
  /\ UNCHANGED lastOp
  /\ ClearAllFrame

\* The callback has returned: the transaction commits and clearAll resolves.
clearAll_Commit ==
  /\ tx.open
  /\ tx.cleared = {"credentials", "folders", "metadata"}
  /\ tx' = NoTx
  /\ Returns("clearAll", tx.handle, NoId, Done)
  /\ UNCHANGED <<dbCredentials, dbFolders, dbMetadata>>
  /\ ClearAllFrame

\* A request of the transaction fails, or the transaction is aborted from
\* outside: what was written to the tables of its scope is rolled back, and
\* clearAll rejects.
clearAll_Abort ==
  /\ tx.open
  /\ dbCredentials' = IF "credentials" \in tx.scope THEN tx.before[1]
                      ELSE dbCredentials
  /\ dbFolders' = IF "folders" \in tx.scope THEN tx.before[2] ELSE dbFolders
  /\ dbMetadata' = IF "metadata" \in tx.scope THEN tx.before[3]
                   ELSE dbMetadata
  /\ tx' = NoTx
  /\ Returns("clearAll", tx.handle, NoId, Throw("AbortError", "aborted"))
  /\ ClearAllFrame

(* ------------------------------------------------------------------ *)
(* Background service worker                                           *)
(* ------------------------------------------------------------------ *)

\* initializeSessionSettings resolves
initializeSessionSettings ==
  /\ ~bgSettingsLoaded
  /\ bgSettingsLoaded' = TRUE
  /\ bgLockTimeoutMinutes' = IF storedSettings # NoSettings
                             THEN storedSettings
                             ELSE bgLockTimeoutMinutes
  /\ UNCHANGED <<vaultVars, sessionVars, bgIsUnlocked, bgLastActivity,
                 bgAutoLockTimer, timerVars, bgTimerVars, now, hostVars,
                 storedSettings, toBackground, toPopup, tasks, dbVars,
                 storeVars, histVars>>

\* startAutoLockTimer of the worker
bgStartAutoLockTimer ==
  LET timerId == Min(FreeTimers(bgLiveTimers))
  IN  /\ bgLiveTimers' = (bgLiveTimers \ {bgAutoLockTimer}) \cup {timerId}
      /\ bgAutoLockTimer' = timerId

\* stopAutoLockTimer of the worker
bgStopAutoLockTimer ==
  /\ bgLiveTimers' = bgLiveTimers \ {bgAutoLockTimer}
  /\ bgAutoLockTimer' = NoTimer

\* chrome.runtime.onMessage listener of the worker: the session messages
onMessage ==
  /\ toBackground # <<>>
  /\ toBackground' = Tail(toBackground)
  /\ LET type == Head(toBackground)
     IN  IF type = "vault-unlock"
         THEN /\ FreeTimers(bgLiveTimers) # {}
              /\ bgIsUnlocked' = TRUE
              /\ bgLastActivity' = now
              /\ bgStartAutoLockTimer
         ELSE IF type = "vault-lock"
         THEN /\ bgIsUnlocked' = FALSE
              /\ bgStopAutoLockTimer
              /\ UNCHANGED bgLastActivity
         ELSE \* 'session-activity': updateSessionActivity
              /\ bgLastActivity' = now
              /\ UNCHANGED <<bgIsUnlocked, bgAutoLockTimer, bgTimerVars>>
  /\ UNCHANGED <<vaultVars, sessionVars, bgLockTimeoutMinutes,
                 bgSettingsLoaded, timerVars, now, hostVars,
                 storedSettings, toPopup, tasks, dbVars, storeVars, histVars>>

\* inactiveTime >= timeoutMs in the worker's timer callback
bgIsInactive ==
  now - bgLastActivity >= TimeoutMs(bgLockTimeoutMinutes)

\* The worker's timer callback without `sessionState.isUnlocked = false`.
BackgroundTick_StaysUnlocked ==
  /\ bgLiveTimers # {}
  /\ IF bgIsUnlocked /\ bgIsInactive
     THEN /\ Len(toPopup) < MaxQueue
          /\ toPopup' = Append(toPopup, "vault-locked")
          /\ UNCHANGED bgIsUnlocked
     ELSE UNCHANGED <<bgIsUnlocked, toPopup>>
  /\ UNCHANGED <<vaultVars, sessionVars, bgLastActivity, bgLockTimeoutMinutes,
                 bgAutoLockTimer, bgSettingsLoaded, timerVars, bgTimerVars,
                 now, hostVars, storedSettings, toBackground, tasks,
                 dbVars, storeVars, histVars>>

\* The callback of the worker's interval timer.
BackgroundTick ==
  /\ bgLiveTimers # {}
  /\ IF bgIsUnlocked /\ bgIsInactive
     THEN /\ bgIsUnlocked' = FALSE
          /\ Len(toPopup) < MaxQueue
          /\ toPopup' = Append(toPopup, "vault-locked")
     ELSE UNCHANGED <<bgIsUnlocked, toPopup>>
  /\ UNCHANGED <<vaultVars, sessionVars, bgLastActivity, bgLockTimeoutMinutes,
                 bgAutoLockTimer, bgSettingsLoaded, timerVars, bgTimerVars,
                 now, hostVars, storedSettings, toBackground, tasks,
                 dbVars, storeVars, histVars>>

(* ------------------------------------------------------------------ *)
(* Clock                                                               *)
(* ------------------------------------------------------------------ *)

Advance ==
  /\ now < MaxNow
  /\ now' = now + ClockStepMs
  /\ UNCHANGED <<vaultVars, sessionVars, bgVars, liveTimers, bgLiveTimers,
                 hostVars, storedSettings, toBackground, toPopup, tasks,
                 dbVars, storeVars, histVars>>

(* ------------------------------------------------------------------ *)
(* The system: popup stores, worker, timers, clock                     *)
(* ------------------------------------------------------------------ *)

\* Credential rows an earlier session left in the database, sealed under k1.
StoredCredential(id) ==
  [id |-> id,
   folderId |-> NoId,
   encryptedData |->
     [ciphertext |-> AeadEncrypt(JsonStringify("d1"), id, "k1",
                                 NoAdditionalData),
      nonce |-> id,
      timestamp |-> 0,
      version |-> EncryptionVersion],
   createdAt |-> 0,
   updatedAt |-> 0,
   deleted |-> FALSE]

StoredMetadata ==
  [id |-> "default", salt |-> exportSalt(VaultSalt), createdAt |-> 0, lastAccessedAt |-> 0,
   schemaVersion |-> 1, initialized |-> TRUE]

NoOp ==
  [op |-> "none", handle |-> Null, id |-> NoId, result |-> "none",
   message |-> "", value |-> <<>>, locked |-> FALSE]

\* The state after the modules are loaded. runtime: whether chrome.runtime
\* exists where the stores run (it does in the extension's popup; the
\* stores' own tests run them with chrome.storage alone); settings: what
\* chrome.storage.local may hold as sessionSettings; rows: how many
\* credential rows the database may hold.
Boot(runtime, settings, rows) ==
  /\ isUnlocked = FALSE
  /\ key = Null
  /\ credentials = <<>>
  /\ isLoading = FALSE
  /\ error = Null
  /\ searchQuery = ""
  /\ selectedCredentialId = NoId
  /\ isActive = FALSE
  /\ lastActivityTime = 0
  /\ lockTimeoutMinutes = DefaultLockTimeoutMinutes
  /\ autoLockTimerId = NoTimer
  /\ bgIsUnlocked = FALSE
  /\ bgLastActivity = 0
  /\ bgLockTimeoutMinutes = DefaultLockTimeoutMinutes
  /\ bgAutoLockTimer = NoTimer
  /\ bgSettingsLoaded = FALSE
  /\ now = 0
  /\ liveTimers = {}
  /\ bgLiveTimers = {}
  /\ chromeRuntime = runtime
  /\ zeroedKeys = {}
  /\ enteredPassword = ""
  /\ calls = [c \in 1..MaxCalls |-> IdleCall]
  /\ storedSettings \in settings
  /\ toBackground = <<>>
  /\ toPopup = <<>>
  /\ tasks = [t \in 1..MaxTasks |-> IdleTask]
  /\ \E n \in rows :
        dbCredentials = [id \in 1..n |-> StoredCredential(id)]
  /\ dbFolders = EmptyTable
  /\ dbMetadata = [i \in {"default"} |-> StoredMetadata]
  /\ tx = NoTx
  /\ storages = {}
  /\ nextId = MaxStoredCredentials + 1
  /\ nextNonce = MaxStoredCredentials + 1
  /\ autoLockEvents = 0
  /\ lastUserActivity = 0
  /\ staleKeyUse = FALSE
  /\ lastOp = NoOp
  /\ lastWrite = [id \in DOMAIN dbCredentials |->
                    [data |-> "d1", key |-> "k1"]]
  /\ lastTick = "none"
  /\ activityGapsShort = TRUE

(* ------------------------------------------------------------------ *)
(* Spec: the popup's two stores, their timer and the clock             *)
(* ------------------------------------------------------------------ *)

Init ==
  Boot(FALSE, {NoSettings, MinLockTimeoutMinutes}, 0..MaxStoredCredentials)

Next ==
  \/ \E k \in Keys : setKey(k)
  \/ \E k \in Keys : unlock(k)
  \/ lock
  \/ loadCredentials
  \/ \E t \in 1..MaxTasks : getAllCredentialsResolves(t)
  \/ \E t \in 1..MaxTasks : getAllCredentialsRejects(t)
  \/ \E t \in 1..MaxTasks : getCredentialDataResolves(t)
  \/ \E t \in 1..MaxTasks : initializeSessionResolves(t)
  \/ copyToClipboard
  \/ updateActivity
  \/ \E minutes \in TimeoutInputs : setLockTimeout(minutes)
  \/ SessionTick
  \/ Advance

Spec == Init /\ [][Next]_vars

(* ------------------------------------------------------------------ *)
(* SystemSpec: the popup's stores with chrome.runtime, the background  *)
(* worker, the messages between them, both timers and the clock; the   *)
(* database holds no credential                                        *)
(* ------------------------------------------------------------------ *)

\* No vault-store call and no message is in flight.
Quiescent ==
  /\ \A t \in 1..MaxTasks : tasks[t].kind = "idle"
  /\ toBackground = <<>>
  /\ toPopup = <<>>

\* A database or chrome.storage call and the delivery of a message take
\* milliseconds, a step of the clock is a minute: here the clock steps only
\* when nothing is in flight.
AdvanceWhenSettled ==
  /\ Quiescent
  /\ Advance

\* What chrome.storage.local can hold as sessionSettings after earlier
\* calls of setLockTimeout: nothing, or a validated number of minutes.
SavedSettings == {NoSettings} \cup {ValidatedMinutes(m) : m \in TimeoutInputs}

SystemInit == Boot(TRUE, SavedSettings, {0})

SystemNext ==
  \/ \E k \in Keys : setKey(k)
  \/ \E k \in Keys : unlock(k)
  \/ lock
  \/ \E t \in 1..MaxTasks : getAllCredentialsResolves(t)
  \/ \E t \in 1..MaxTasks : getAllCredentialsRejects(t)
  \/ \E t \in 1..MaxTasks : initializeSessionResolves(t)
  \/ \E query \in SearchQueries : searchCredentials(query)
  \/ \E id \in {NoId} : selectCredential(id)
  \/ copyToClipboard
  \/ updateActivity
  \/ SessionTick
  \/ onVaultLocked
  \/ initializeSessionSettings
  \/ onMessage
  \/ BackgroundTick
  \/ AdvanceWhenSettled

SystemSpec == SystemInit /\ [][SystemNext]_vars

(* ------------------------------------------------------------------ *)
(* TimerSpec: every caller of the two interval timers, the session     *)
(* store's timer functions called directly included                    *)
(* ------------------------------------------------------------------ *)

TimerInit == Boot(TRUE, {MinLockTimeoutMinutes}, {0})

TimerNext ==
  \/ \E k \in Keys : setKey(k)
  \/ \E k \in Keys : unlock(k)
  \/ lock
  \/ \E t \in 1..MaxTasks : getAllCredentialsResolves(t)
  \/ \E t \in 1..MaxTasks : getAllCredentialsRejects(t)
  \/ \E t \in 1..MaxTasks : initializeSessionResolves(t)
  \/ updateActivity
  \/ StartAutoLockTimerCall
  \/ StopAutoLockTimerCall
  \/ ClearSessionCall
  \/ SessionTick
  \/ onVaultLocked
  \/ initializeSessionSettings
  \/ onMessage
  \/ BackgroundTick
  \/ Advance

TimerSpec == TimerInit /\ [][TimerNext]_vars

(* ------------------------------------------------------------------ *)
(* StoreSpec: the vault store's unlock and lock, and callers that hold *)
(* a VaultStorage instance, at one moment of the clock                 *)
(* ------------------------------------------------------------------ *)

StoreInit == Boot(FALSE, {MinLockTimeoutMinutes}, 0..MaxStoredCredentials)

RecordIds == 1..MaxIds

\* The payload the callers of this specification write.
StoreDatas == {"d1"}

StoreNext ==
  \/ \E k \in Keys : setKey(k)
  \/ \E t \in 1..MaxTasks : initializeSessionResolves(t)
  \/ lock
  \/ createVaultStorage
  \/ \E h \in storages, data \in StoreDatas :
        Storage_createCredential(h, data, NoId)
  \/ \E h \in storages, id \in RecordIds : Storage_getCredential(h, id)
  \/ \E h \in storages, id \in RecordIds : Storage_getCredentialData(h, id)
  \/ \E h \in storages : Storage_getAllCredentials(h, NoArgument)
  \/ \E h \in storages, id \in RecordIds, data \in StoreDatas :
        Storage_updateCredential(h, id, data)
  \/ \E h \in storages, id \in RecordIds : Storage_deleteCredential(h, id)
  \/ \E h \in storages, id \in RecordIds :
        Storage_permanentlyDeleteCredential(h, id)
  \/ \E h \in storages, name \in FolderNames :
        Storage_createFolder(h, name, NoId)
  \/ \E h \in storages, id \in RecordIds : Storage_getFolder(h, id)
  \/ \E h \in storages : Storage_getAllFolders(h, NoArgument)
  \/ \E h \in storages, id \in RecordIds, name \in FolderNames :
        Storage_updateFolder(h, id, name)
  \/ \E h \in storages, id \in RecordIds : Storage_deleteFolder(h, id)
  \/ \E h \in storages, id \in RecordIds :
        Storage_permanentlyDeleteFolder(h, id)

StoreSpec == StoreInit /\ [][StoreNext]_vars

(* ------------------------------------------------------------------ *)
(* CipherSpec: callers of encrypt and decrypt, and what can happen to  *)
(* a blob between the two                                              *)
(* ------------------------------------------------------------------ *)

\* Plaintexts: the empty string, a zero-length Buffer, a text that is not
\* JSON, a serialized payload, and the JSON texts of null and of a number.
Plaintexts ==
  {EmptyPlaintext, EmptyBuffer, <<"utf8", "p1">>, JsonStringify("d1")}
    \cup {JsonStringify(value) : value \in NonObjects}
\* Associated data: none, or one of two buffers.
AdditionalDatas == {NoAdditionalData, "a1", "a2"}

\* The blob as it is presented to decrypt: as encrypt returned it, with
\* bytes of the ciphertext body or of the tag changed, with another 24-byte
\* nonce, or malformed (nonce empty or of another length, ciphertext empty).
Presented(blob) ==
  {blob,
   [blob EXCEPT !.ciphertext.body[4] = <<"garbled", @>>],
   [blob EXCEPT !.ciphertext.tag = <<"poly1305", "garbled">>],
   [blob EXCEPT !.nonce = @ + 1],
   [blob EXCEPT !.nonce = EmptyNonce],
   [blob EXCEPT !.nonce = ShortNonce],
   [blob EXCEPT !.ciphertext = EmptyCiphertext]}

\* What no cipher call changes.
CipherFrame ==
  UNCHANGED <<vaultVars, sessionVars, bgVars, timerVars, bgTimerVars, now,
              hostVars, storedSettings, toBackground, toPopup, tasks,
              dbVars, storages, nextId, autoLockEvents, lastUserActivity,
              staleKeyUse, lastWrite, lastTick, activityGapsShort>>

\* A call of encrypt settles. generateNonce is called only after the
\* plaintext has passed the emptiness test.
Cipher_encrypt(plaintext, k, additionalData) ==
  /\ nextNonce <= MaxNonces
  /\ LET settled == encrypt(plaintext, k, nextNonce, additionalData)
     IN  /\ lastOp' = [op |-> "encrypt",
                       plaintext |-> plaintext,
                       key |-> k,
                       additionalData |-> additionalData,
                       result |-> IF settled.threw THEN settled.name ELSE "ok",
                       message |-> settled.message,
                       value |-> settled.value]
         /\ nextNonce' = IF settled.threw THEN nextNonce ELSE nextNonce + 1
  /\ CipherFrame

\* A call of decrypt on what has become of the blob encrypt last returned.
Cipher_decrypt(encryptedData, k, additionalData) ==
  /\ lastOp.op = "encrypt"
  /\ lastOp.result = "ok"
  /\ encryptedData \in Presented(lastOp.value[1])
  /\ LET settled == decrypt(encryptedData, k, additionalData)
     IN  lastOp' = [op |-> "decrypt",
                    sealed |-> [plaintext |-> lastOp.plaintext,
                                key |-> lastOp.key,
                                additionalData |-> lastOp.additionalData,
                                blob |-> lastOp.value[1]],
                    encryptedData |-> encryptedData,
                    key |-> k,
                    additionalData |-> additionalData,
                    result |-> IF settled.threw THEN settled.name ELSE "ok",
                    message |-> settled.message,
                    value |-> settled.value]
  /\ UNCHANGED nextNonce
  /\ CipherFrame

\* A call of decryptCredentials on what has become of the blob encrypt last
\* returned.
Cipher_decryptCredentials(encryptedData, k) ==
  /\ lastOp.op = "encrypt"
  /\ lastOp.result = "ok"
  /\ encryptedData \in Presented(lastOp.value[1])
  /\ LET settled == decryptCredentials(encryptedData, k)
     IN  lastOp' = [op |-> "decryptCredentials",
                    sealed |-> [plaintext |-> lastOp.plaintext,
                                key |-> lastOp.key,
                                additionalData |-> lastOp.additionalData,
                                blob |-> lastOp.value[1]],
                    encryptedData |-> encryptedData,
                    key |-> k,
                    additionalData |-> NoAdditionalData,
                    result |-> IF settled.threw THEN settled.name ELSE "ok",
                    message |-> settled.message,
                    value |-> settled.value]
  /\ UNCHANGED nextNonce
  /\ CipherFrame

CipherInit == Boot(FALSE, {NoSettings}, {0})

\* Every blob decrypt can be called with here comes from a call of encrypt.
CipherBlobs ==
  UNION {Presented(encrypt(plaintext, k, nonce, additionalData).value[1]) :
           plaintext \in Plaintexts \ {EmptyPlaintext}, k \in CipherKeys,
           nonce \in 1..MaxNonces, additionalData \in AdditionalDatas}

CipherNext ==
  \/ \E plaintext \in Plaintexts, k \in CipherKeys,
         additionalData \in AdditionalDatas :
        Cipher_encrypt(plaintext, k, additionalData)
  \/ \E encryptedData \in CipherBlobs, k \in CipherKeys,
         additionalData \in AdditionalDatas :
        Cipher_decrypt(encryptedData, k, additionalData)
  \/ \E encryptedData \in CipherBlobs, k \in CipherKeys :
        Cipher_decryptCredentials(encryptedData, k)

CipherSpec == CipherInit /\ [][CipherNext]_vars

(* ------------------------------------------------------------------ *)
(* CredentialSpec: callers of the credential calls of VaultStorage     *)
(* instances created with the vault's key or with another key          *)
(* ------------------------------------------------------------------ *)

\* Ids generateId has handed out: a caller can name no other id, as an id
\* is made of the time and random characters.
KnownIds == 1..(nextId - 1)

\* folderId / parentId arguments of the create calls: null or a known id.
FolderArguments == {NoId} \cup KnownIds

CredentialInit == Boot(FALSE, {NoSettings}, 0..MaxStoredCredentials)

CredentialNext ==
  \/ \E k \in CipherKeys : createVaultStorageWith(k)
  \/ \E h \in storages, data \in CredentialDatas,
         folderId \in FolderArguments :
        Storage_createCredential(h, data, folderId)
  \/ \E h \in storages, id \in KnownIds : Storage_getCredential(h, id)
  \/ \E h \in storages, id \in KnownIds : Storage_getCredentialData(h, id)
  \/ \E h \in storages, folderId \in {NoArgument} \cup FolderArguments :
        Storage_getAllCredentials(h, folderId)
  \/ \E h \in storages, id \in KnownIds, data \in CredentialDatas :
        Storage_updateCredential(h, id, data)
  \/ \E h \in storages, id \in KnownIds : Storage_deleteCredential(h, id)
  \/ \E h \in storages, id \in KnownIds :
        Storage_permanentlyDeleteCredential(h, id)

CredentialSpec == CredentialInit /\ [][CredentialNext]_vars

(* ------------------------------------------------------------------ *)
(* BrowseSpec: callers that create, read, list and delete credentials  *)
(* and folders through one VaultStorage instance                       *)
(* ------------------------------------------------------------------ *)

BrowseInit == Boot(FALSE, {NoSettings}, 0..MaxStoredCredentials)

BrowseNext ==
  \/ \E k \in Keys : createVaultStorageWith(k)
  \/ \E h \in storages, data \in StoreDatas, folderId \in FolderArguments :
        Storage_createCredential(h, data, folderId)
  \/ \E h \in storages, id \in KnownIds : Storage_getCredential(h, id)
  \/ \E h \in storages, folderId \in {NoArgument} \cup FolderArguments :
        Storage_getAllCredentials(h, folderId)
  \/ \E h \in storages, id \in KnownIds : Storage_deleteCredential(h, id)
  \/ \E h \in storages, id \in KnownIds :
        Storage_permanentlyDeleteCredential(h, id)
  \/ \E h \in storages, name \in FolderNames,
         parentId \in FolderArguments :
        Storage_createFolder(h, name, parentId)
  \/ \E h \in storages, id \in KnownIds : Storage_getFolder(h, id)
  \/ \E h \in storages, parentId \in {NoArgument} \cup FolderArguments :
        Storage_getAllFolders(h, parentId)
  \/ \E h \in storages, id \in KnownIds : Storage_deleteFolder(h, id)
  \/ \E h \in storages, id \in KnownIds :
        Storage_permanentlyDeleteFolder(h, id)

BrowseSpec == BrowseInit /\ [][BrowseNext]_vars

(* ------------------------------------------------------------------ *)
(* FolderSpec: callers of the folder calls of a VaultStorage instance  *)
(* ------------------------------------------------------------------ *)

FolderInit == Boot(FALSE, {NoSettings}, {0})

FolderNext ==
  \/ \E k \in Keys : createVaultStorageWith(k)
  \/ \E h \in storages, name \in FolderNames,
         parentId \in FolderArguments :
        Storage_createFolder(h, name, parentId)
  \/ \E h \in storages, id \in KnownIds : Storage_getFolder(h, id)
  \/ \E h \in storages, parentId \in {NoArgument} \cup FolderArguments :
        Storage_getAllFolders(h, parentId)
  \/ \E h \in storages, id \in KnownIds, name \in FolderNames :
        Storage_updateFolder(h, id, name)
  \/ \E h \in storages, id \in KnownIds : Storage_deleteFolder(h, id)
  \/ \E h \in storages, id \in KnownIds :
        Storage_permanentlyDeleteFolder(h, id)

FolderSpec == FolderInit /\ [][FolderNext]_vars

(* ------------------------------------------------------------------ *)
(* ClearSpec: clearAll, step by step, beside callers that create and   *)
(* read through the same instance                                      *)
(* ------------------------------------------------------------------ *)

ClearInit == Boot(FALSE, {NoSettings}, 0..MaxStoredCredentials)

ClearNext ==
  \/ \E k \in Keys : createVaultStorageWith(k)
  \/ \E h \in storages, data \in StoreDatas :
        Storage_createCredential(h, data, NoId)
  \/ \E h \in storages, name \in FolderNames :
        Storage_createFolder(h, name, NoId)
  \/ \E h \in storages : Storage_getAllCredentials(h, NoArgument)
  \/ \E h \in storages : Storage_getAllFolders(h, NoArgument)
  \/ \E h \in storages : Storage_isInitialized(h)
  \/ \E h \in storages : Storage_clearAll(h)
  \/ clearAll_Clear
  \/ clearAll_Commit
  \/ clearAll_Abort

ClearSpec == ClearInit /\ [][ClearNext]_vars

(* ------------------------------------------------------------------ *)
(* MetadataSpec: the calls that read and write the metadata row, with  *)
(* the clock                                                           *)
(* ------------------------------------------------------------------ *)

\* Salts a caller may pass to initialize: exportSalt of what generateSalt
\* returned.
Salts == {exportSalt(salt) : salt \in SaltBytes}

MetadataInit == Boot(FALSE, {NoSettings}, 0..MaxStoredCredentials)

MetadataNext ==
  \/ \E k \in Keys : createVaultStorageWith(k)
  \/ \E h \in storages, salt \in Salts : Storage_initialize(h, salt)
  \/ \E h \in storages : Storage_getMetadata(h)
  \/ \E h \in storages : Storage_isInitialized(h)
  \/ \E h \in storages, id \in DOMAIN dbCredentials :
        Storage_getCredential(h, id)
  \/ \E h \in storages, data \in StoreDatas :
        Storage_createCredential(h, data, NoId)
  \/ \E h \in storages : Storage_clearAll(h)
  \/ clearAll_Clear
  \/ clearAll_Commit
  \/ clearAll_Abort
  \/ Advance

MetadataSpec == MetadataInit /\ [][MetadataNext]_vars

(* ------------------------------------------------------------------ *)
(* LoadSpec: unlock and loadCredentials with the vault's key or with   *)
(* another key, beside direct reads through VaultStorage               *)
(* ------------------------------------------------------------------ *)

LoadInit == Boot(FALSE, {NoSettings}, 0..MaxStoredCredentials)

LoadNext ==
  \/ \E k \in CipherKeys : unlock(k)
  \/ lock
  \/ loadCredentials
  \/ \E t \in 1..MaxTasks : getAllCredentialsResolves(t)
  \/ \E t \in 1..MaxTasks : getAllCredentialsRejects(t)
  \/ \E t \in 1..MaxTasks : getCredentialDataResolves(t)
  \/ \E t \in 1..MaxTasks : initializeSessionResolves(t)
  \/ \E k \in CipherKeys : createVaultStorageWith(k)
  \/ \E h \in storages, id \in 1..MaxStoredCredentials :
        Storage_getCredentialData(h, id)

LoadSpec == LoadInit /\ [][LoadNext]_vars

(* ------------------------------------------------------------------ *)
(* MissingSpec: update and delete calls with any id, stored or not,    *)
(* beside the calls that store and remove rows, with the clock         *)
(* ------------------------------------------------------------------ *)

MissingInit == Boot(FALSE, {NoSettings}, 0..MaxStoredCredentials)

MissingNext ==
  \/ \E k \in Keys : createVaultStorageWith(k)
  \/ \E h \in storages, data \in StoreDatas :
        Storage_createCredential(h, data, NoId)
  \/ \E h \in storages, name \in FolderNames :
        Storage_createFolder(h, name, NoId)
  \/ \E h \in storages, id \in RecordIds, data \in StoreDatas :
        Storage_updateCredential(h, id, data)
  \/ \E h \in storages, id \in RecordIds : Storage_deleteCredential(h, id)
  \/ \E h \in storages, id \in RecordIds, name \in FolderNames :
        Storage_updateFolder(h, id, name)
  \/ \E h \in storages, id \in RecordIds : Storage_deleteFolder(h, id)
  \/ \E h \in storages, id \in RecordIds :
        Storage_permanentlyDeleteCredential(h, id)
  \/ \E h \in storages, id \in RecordIds :
        Storage_permanentlyDeleteFolder(h, id)
  \/ Advance

MissingSpec == MissingInit /\ [][MissingNext]_vars

(* ------------------------------------------------------------------ *)
(* KeySpec: unlock, lock and auto-lock of the vault store, beside a    *)
(* caller that keeps the VaultStorage instance it made with the        *)
(* store's key, and callers of clearKey                                *)
(* ------------------------------------------------------------------ *)

KeyInit == Boot(FALSE, {MinLockTimeoutMinutes}, 0..MaxStoredCredentials)

KeyNext ==
  \/ \E k \in Keys : unlock(k)
  \/ lock
  \/ \E t \in 1..MaxTasks : getAllCredentialsResolves(t)
  \/ \E t \in 1..MaxTasks : getCredentialDataResolves(t)
  \/ \E t \in 1..MaxTasks : initializeSessionResolves(t)
  \/ SessionTick
  \/ Advance
  \/ \E k \in Keys : clearKey(k)
  \/ createVaultStorage
  \/ \E h \in storages, id \in 1..MaxStoredCredentials :
        Storage_getCredentialData(h, id)

KeySpec == KeyInit /\ [][KeyNext]_vars

(* ------------------------------------------------------------------ *)
(* DeriveSpec: callers of deriveKey, verifyPassword and clearKey       *)
(* ------------------------------------------------------------------ *)

DeriveInit == Boot(FALSE, {NoSettings}, {0})

\* What a call of the key derivation module leaves alone.
DeriveFrame ==
  UNCHANGED <<vaultVars, sessionVars, bgVars, timerVars, bgTimerVars, now,
              hostVars, storedSettings, toBackground, toPopup, tasks,
              dbVars, storeVars, autoLockEvents, lastUserActivity,
              staleKeyUse, lastWrite, lastTick, activityGapsShort>>

\* A call of deriveKey settles.
Derive_deriveKey(password, salt, fresh) ==
  /\ Returns("deriveKey", <<password, salt>>, NoId,
             deriveKey(password, salt, fresh))
  /\ DeriveFrame

\* A call of verifyPassword settles.
Derive_verifyPassword(password, salt, expectedKey, fresh) ==
  /\ Returns("verifyPassword", <<password, salt, expectedKey>>, NoId,
             verifyPassword(password, salt, expectedKey, fresh))
  /\ DeriveFrame

\* The keys deriveKey returns for the passwords and salts above.
DerivedKeys ==
  {crypto_pwhash(password, salt) :
     password \in Passwords \ {EmptyPassword}, salt \in SaltBytes}

DeriveNext ==
  \/ \E password \in Passwords, salt \in SaltBytes \cup {NoSalt},
        fresh \in SaltBytes :
        Derive_deriveKey(password, salt, fresh)
  \/ \E password \in Passwords, salt \in SaltBytes, fresh \in SaltBytes,
        expectedKey \in DerivedKeys :
        Derive_verifyPassword(password, salt, expectedKey, fresh)
  \/ \E k \in DerivedKeys : clearKey(k)

DeriveSpec == DeriveInit /\ [][DeriveNext]_vars

(* ------------------------------------------------------------------ *)
(* RekeySpec: a user who unlocks with a typed password and the stored  *)
(* salt, writes through the store's key, and locks                     *)
(* ------------------------------------------------------------------ *)

RekeyInit == Boot(FALSE, {NoSettings}, 0..MaxStoredCredentials)

\* The user types a master password while the vault is locked.
EnterPassword(password) ==
  /\ ~isUnlocked
  /\ enteredPassword' = password
  /\ UNCHANGED <<chromeRuntime, zeroedKeys, calls, vaultVars, sessionVars,
                 bgVars, timerVars, bgTimerVars, now, storedSettings,
                 toBackground,
                 toPopup, tasks, dbVars, storeVars, histVars>>

\* The typed password is submitted: the stored salt is imported, the key
\* derived from both, and the vault store unlocked with it.
UnlockWithPassword(fresh) ==
  /\ ~isUnlocked
  /\ getMetadata # <<>>
  /\ LET derived == deriveKey(enteredPassword,
                              importSalt(getMetadata[1].salt), fresh)
     IN  /\ ~derived.threw
         /\ unlock(derived.value[1].key)

RekeyNext ==
  \/ \E password \in Passwords : EnterPassword(password)
  \/ \E fresh \in SaltBytes : UnlockWithPassword(fresh)
  \/ lock
  \/ \E t \in 1..MaxTasks : getAllCredentialsResolves(t)
  \/ \E t \in 1..MaxTasks : getCredentialDataResolves(t)
  \/ \E t \in 1..MaxTasks : initializeSessionResolves(t)
  \/ createVaultStorage
  \/ \E h \in storages, id \in DOMAIN dbCredentials,
        data \in CredentialDatas :
        Storage_updateCredential(h, id, data)
  \/ \E h \in storages, id \in DOMAIN dbCredentials :
        Storage_deleteCredential(h, id)

RekeySpec == RekeyInit /\ [][RekeyNext]_vars

(* ------------------------------------------------------------------ *)
(* RaceSpec: updateCredential, deleteCredential and                    *)
(* permanentlyDeleteCredential of one instance running at the same     *)
(* time, with the clock                                                *)
(* ------------------------------------------------------------------ *)

RaceInit == Boot(FALSE, {NoSettings}, 0..MaxStoredCredentials)

RaceNext ==
  \/ \E k \in Keys : createVaultStorageWith(k)
  \/ \E h \in storages, id \in 1..MaxStoredCredentials :
        Call_get("updateCredential", h, id, "d2")
  \/ \E h \in storages, id \in 1..MaxStoredCredentials :
        Call_get("deleteCredential", h, id, Null)
  \/ \E c \in 1..MaxCalls : updateCredential_write(c)
  \/ \E c \in 1..MaxCalls : deleteCredential_write(c)
  \/ \E h \in storages, id \in 1..MaxStoredCredentials :
        permanentlyDeleteCredential_delete(h, id)
  \/ \E c \in 1..MaxCalls : Call_touch(c)
  \/ Advance

RaceSpec == RaceInit /\ [][RaceNext]_vars

(* ------------------------------------------------------------------ *)
(* LiveSpec: the system with a user who acts in the first clock step   *)
(* and is idle afterwards, under fair scheduling                       *)
(* ------------------------------------------------------------------ *)

\* The stored timeout is the shortest one, so that it expires within the
\* clock's range.
LiveInit == Boot(TRUE, {MinLockTimeoutMinutes}, {0})

\* The user is at the popup.
UserPresent == now = 0

LiveNext ==
  \/ UserPresent /\ \E k \in Keys : setKey(k)
  \/ UserPresent /\ \E k \in Keys : unlock(k)
  \/ UserPresent /\ updateActivity
  \/ \E t \in 1..MaxTasks : getAllCredentialsResolves(t)
  \/ \E t \in 1..MaxTasks : getAllCredentialsRejects(t)
  \/ \E t \in 1..MaxTasks : initializeSessionResolves(t)
  \/ SessionTick
  \/ onVaultLocked
  \/ initializeSessionSettings
  \/ onMessage
  \/ BackgroundTick
  \/ AdvanceWhenSettled

\* Every pending call settles, every message is delivered, every live timer
\* keeps firing, and the clock advances once nothing is in flight.
LiveFairness ==
  /\ \A t \in 1..MaxTasks :
        WF_vars(getAllCredentialsResolves(t) \/ getAllCredentialsRejects(t))
  /\ \A t \in 1..MaxTasks : WF_vars(initializeSessionResolves(t))
  /\ WF_vars(SessionTick)
  /\ WF_vars(BackgroundTick)
  /\ WF_vars(onMessage)
  /\ WF_vars(onVaultLocked)
  /\ WF_vars(initializeSessionSettings)
  /\ WF_vars(AdvanceWhenSettled)

LiveSpec == LiveInit /\ [][LiveNext]_vars /\ LiveFairness

(* ------------------------------------------------------------------ *)
(* SettingsSpec: the lock timeout in the session store, in             *)
(* chrome.storage.local and in the worker, with nothing persisted at   *)
(* the start and every kind of argument to setLockTimeout              *)
(* ------------------------------------------------------------------ *)

\* Arguments to setLockTimeout below, at, between and above the limits.
WideTimeoutInputs ==
  {MinLockTimeoutMinutes - 2, MinLockTimeoutMinutes - 1,
   MinLockTimeoutMinutes, 30, MaxLockTimeoutMinutes,
   MaxLockTimeoutMinutes + 1}

SettingsInit == Boot(TRUE, {NoSettings}, {0})

SettingsNext ==
  \/ \E k \in Keys : setKey(k)
  \/ \E t \in 1..MaxTasks : initializeSessionResolves(t)
  \/ lock
  \/ updateActivity
  \/ \E minutes \in WideTimeoutInputs : setLockTimeout(minutes)
  \/ StartAutoLockTimerCall
  \/ ClearSessionCall
  \/ SessionTick
  \/ initializeSessionSettings
  \/ onMessage
  \/ Advance

SettingsSpec == SettingsInit /\ [][SettingsNext]_vars

(* ------------------------------------------------------------------ *)
(* Properties of the popup's stores (Spec)                             *)
(* ------------------------------------------------------------------ *)

\* Asynchronous unlock / setKey work still in flight.
InitializationPending ==
  \E t \in 1..MaxTasks : tasks[t].kind \in {"unlock", "setKey"}

\* now - lastActivityTime >= lockTimeoutMinutes * 60000, as the
\* specification states the expiry test.
Expired == now - lastActivityTime >= lockTimeoutMinutes * 60000

\* C2: while the vault store is locked (isUnlocked = false) it holds no key
\* and no decrypted credential, whatever the interleaving of lock() with a
\* pending unlock(key) or loadCredentials().
C2_LockedHoldsNothing ==
  ~isUnlocked => (key = Null /\ credentials = <<>>)

\* C3: once lock() has run, the decryption loop of a pending unlock() /
\* loadCredentials() performs no decryption with the key that was current
\* before the lock.
C3_NoStaleKeyUse == ~staleKeyUse

\* C4: a tick of the periodic check that finds the session active and the
\* timeout expired ends with the session inactive, the timer stopped and the
\* vault locked with no key and no credentials, and dispatches
\* 'vault-auto-lock' once (the session is inactive and the timer stopped
\* afterwards, so no later tick dispatches it again).
C4_ExpiredTickLocks ==
  [][(SessionTick /\ isActive /\ Expired)
       => /\ ~isActive'
          /\ autoLockTimerId' = NoTimer
          /\ liveTimers' = {}
          /\ ~isUnlocked'
          /\ key' = Null
          /\ credentials' = <<>>
          /\ autoLockEvents' = autoLockEvents + 1]_vars

\* C5: a tick of the periodic check that finds the timeout not expired
\* (with the timeout value current at the tick), or the session inactive,
\* changes neither isActive, isUnlocked, key nor credentials and dispatches
\* no 'vault-auto-lock'.
C5_RecentTickIsNoOp ==
  [][(SessionTick /\ (~isActive \/ ~Expired))
       => UNCHANGED <<isActive, isUnlocked, key, credentials, autoLockTimerId,
                      liveTimers, autoLockEvents>>]_vars

\* A tick found recent activity after time had passed, and the vault is
\* still unlocked with its session active.
C5_Witness ==
  /\ lastTick = "recent"
  /\ isUnlocked /\ key # Null /\ isActive
  /\ now > lastActivityTime
  /\ autoLockEvents = 0

\* C8: when the vault store is unlocked and no unlock() / setKey()
\* initialization is pending, the session is active and the periodic check
\* is running.
C8_UnlockedIsWatched ==
  (isUnlocked /\ ~InitializationPending)
    => (isActive /\ autoLockTimerId # NoTimer /\ autoLockTimerId \in liveTimers)

\* C10: 'vault-auto-lock' is dispatched only by a periodic check that found
\* the session active and the timeout expired; an explicit lock() stops the
\* timer, deactivates the session and clears key and credentials without
\* dispatching it.
C10_AutoLockOnlyOnExpiry ==
  [][/\ (autoLockEvents' # autoLockEvents)
          => (SessionTick /\ isActive /\ Expired)
     /\ lock => /\ autoLockEvents' = autoLockEvents
                /\ autoLockTimerId' = NoTimer
                /\ liveTimers' = {}
                /\ ~isActive'
                /\ ~isUnlocked'
                /\ key' = Null
                /\ credentials' = <<>>]_vars

\* An explicit lock() has ended a session that held credentials, at a later
\* time than the unlock (clearSession stamped lastActivityTime), and no
\* 'vault-auto-lock' was ever dispatched.
C10_Witness ==
  /\ ~isUnlocked /\ key = Null /\ credentials = <<>>
  /\ ~isActive /\ autoLockTimerId = NoTimer
  /\ lastActivityTime = now /\ now > lastUserActivity
  /\ autoLockEvents = 0
  /\ lastTick = "recent"

(* ------------------------------------------------------------------ *)
(* Properties of the whole system (SystemSpec, TimerSpec)              *)
(* ------------------------------------------------------------------ *)

\* C7: user activity defers the auto-lock of the whole system. While every
\* user action since the unlock came sooner than the lock timeout after the
\* one before it, the worker's timer (which runs on the same timeout) does
\* not lock the popup's vault through 'vault-locked' before a full timeout
\* has passed since the last user action. (Stated for the
\* moments when no vault-store call is pending and the worker has received
\* every message sent to it.)
C7_ActivityDefersBackgroundLock ==
  [][(/\ onVaultLocked
      /\ isUnlocked /\ ~isUnlocked'
      /\ activityGapsShort
      /\ \A t \in 1..MaxTasks : tasks[t].kind = "idle"
      /\ toBackground = <<>>
      /\ bgLockTimeoutMinutes = lockTimeoutMinutes)
       => now - lastUserActivity >= TimeoutMs(lockTimeoutMinutes)]_vars

\* C9: the live interval timers of the session store are at most the one
\* recorded in autoLockTimerId (none when it is null), and the live timers
\* of the worker are at most the one recorded in autoLockTimer.
C9_AtMostOneTimer ==
  /\ liveTimers \subseteq {autoLockTimerId} \ {NoTimer}
  /\ bgLiveTimers \subseteq {bgAutoLockTimer} \ {NoTimer}
  /\ Cardinality(liveTimers) <= 1
  /\ Cardinality(bgLiveTimers) <= 1

\* Both timers have been started again while running: the one live timer
\* on each side is the second handle, and the first has been cleared.
C9_Witness ==
  /\ autoLockTimerId # NoTimer /\ autoLockTimerId # 1
  /\ liveTimers = {autoLockTimerId}
  /\ bgAutoLockTimer # NoTimer /\ bgAutoLockTimer # 1
  /\ bgLiveTimers = {bgAutoLockTimer}

(* ------------------------------------------------------------------ *)
(* Properties of the record store (StoreSpec)                          *)
(* ------------------------------------------------------------------ *)

\* C1: a record-store call made while the vault is locked (after lock(),
\* before the next unlock) fails with a vault-locked error, on every
\* VaultStorage instance, one created while the vault was unlocked included.
C1_LockedStoreRefuses ==
  lastOp.locked => lastOp.result = "VaultLockedError"

(* ------------------------------------------------------------------ *)
(* Liveness (LiveSpec)                                                 *)
(* ------------------------------------------------------------------ *)

\* A call the user makes.
UserStep ==
  \/ \E k \in Keys : setKey(k)
  \/ \E k \in Keys : unlock(k)
  \/ updateActivity

\* C6: if the user stops acting, then whenever the vault is unlocked it
\* eventually becomes locked, whichever way it was unlocked: setKey, or
\* unlock whose load of the credentials succeeds or fails.
C6_EventuallyLocked ==
  (<>[][~UserStep]_vars) => (isUnlocked ~> ~isUnlocked)

(* ------------------------------------------------------------------ *)
(* Properties of the lock timeout setting (SettingsSpec)               *)
(* ------------------------------------------------------------------ *)

LockTimeoutRange == MinLockTimeoutMinutes..MaxLockTimeoutMinutes

\* C11: in every reachable state the lock timeout of the session store and
\* the lock timeout of the background worker are within 1..60 minutes, also
\* after initializeSession / initializeSessionSettings has loaded a value
\* that an earlier setLockTimeout persisted.
C11_TimeoutInRange ==
  /\ lockTimeoutMinutes \in LockTimeoutRange
  /\ bgLockTimeoutMinutes \in LockTimeoutRange
  /\ storedSettings # NoSettings => storedSettings \in LockTimeoutRange

\* Both sides have loaded a persisted value that setLockTimeout had to clamp
\* (the only arguments that leave 60 in storage are 60 and 61; the worker
\* starts at 15 and takes another value only from storage).
C11_Witness ==
  /\ storedSettings = MaxLockTimeoutMinutes
  /\ bgSettingsLoaded
  /\ bgLockTimeoutMinutes = MaxLockTimeoutMinutes
  /\ isActive
  /\ lockTimeoutMinutes = MaxLockTimeoutMinutes

\* min(60, max(1, m))
Clamped(m) ==
  LET raised == IF m > 1 THEN m ELSE 1
  IN  IF raised < 60 THEN raised ELSE 60

IdsOf(rows) == {rows[n].id : n \in 1..Len(rows)}

\* In this state a soft-deleted row is left out of the full listing and is
\* still returned by id, and an id with no row reads as undefined.
SoftDeletedVisibility ==
  /\ \A id \in KnownIds :
        /\ id \in DOMAIN dbCredentials /\ dbCredentials[id].deleted =>
             /\ id \notin IdsOf(getAllCredentialsIn(NoArgument))
             /\ getCredential(id) = <<dbCredentials[id]>>
        /\ id \notin DOMAIN dbCredentials => getCredential(id) = <<>>
  /\ \A id \in KnownIds :
        /\ id \in DOMAIN dbFolders /\ dbFolders[id].deleted =>
             /\ id \notin IdsOf(getAllFolders(NoArgument))
             /\ getFolder(id) = <<dbFolders[id]>>
        /\ id \notin DOMAIN dbFolders => getFolder(id) = <<>>

\* A delete call on an existing row keeps the row, sets its deleted flag and
\* leaves its payload (for a folder its name and parent) as it was; a
\* permanent delete removes the row.
DeleteStep ==
  \A h \in storages, id \in KnownIds :
    /\ Storage_deleteCredential(h, id) /\ id \in DOMAIN dbCredentials =>
         /\ id \in DOMAIN dbCredentials'
         /\ dbCredentials'[id].deleted
         /\ dbCredentials'[id].encryptedData = dbCredentials[id].encryptedData
    /\ Storage_permanentlyDeleteCredential(h, id) =>
         id \notin DOMAIN dbCredentials'
    /\ Storage_deleteFolder(h, id) /\ id \in DOMAIN dbFolders =>
         /\ id \in DOMAIN dbFolders'
         /\ dbFolders'[id].deleted
         /\ dbFolders'[id].name = dbFolders[id].name
         /\ dbFolders'[id].parentId = dbFolders[id].parentId
    /\ Storage_permanentlyDeleteFolder(h, id) => id \notin DOMAIN dbFolders'

\* C13: after deleteCredential(id), getAllCredentials() leaves id out while
\* getCredential(id) still returns the row, with deleted = true and its
\* encryptedData unchanged; after permanentlyDeleteCredential(id),
\* getCredential(id) returns undefined. The same holds for folders with
\* deleteFolder, permanentlyDeleteFolder, getAllFolders and getFolder.
C13_SoftDeleteVisibility ==
  /\ []SoftDeletedVisibility
  /\ [][DeleteStep]_vars

\* getFolder has just returned a soft-deleted folder, while a soft-deleted
\* credential is stored and another id has been permanently deleted.
C13_Witness ==
  /\ lastOp.op = "getFolder"
  /\ lastOp.value # <<>>
  /\ lastOp.value[1].deleted
  /\ \E id \in DOMAIN dbCredentials : dbCredentials[id].deleted
  /\ \E id \in KnownIds : id \notin DOMAIN dbCredentials \cup DOMAIN dbFolders

\* The rows a listing call has to return for its argument.
Selected(table, field, argument) ==
  {table[i] : i \in {j \in DOMAIN table :
                       /\ ~table[j].deleted
                       /\ argument # NoArgument => table[j][field] = argument}}

\* The elements of a sequence, and whether none occurs twice.
Elements(rows) == {rows[n] : n \in 1..Len(rows)}
NoRepeats(rows) == Cardinality(Elements(rows)) = Len(rows)

\* C18: getAllCredentials(folderId) returns exactly the credentials that are
\* not deleted and whose folderId equals the argument (null selects the
\* root-level ones only), and without an argument all that are not deleted;
\* getAllFolders(parentId) does the same on parentId.
C18_ListingIsExact ==
  /\ lastOp.op = "getAllCredentials" =>
       /\ Elements(lastOp.value) = Selected(dbCredentials, "folderId", lastOp.id)
       /\ NoRepeats(lastOp.value)
  /\ lastOp.op = "getAllFolders" =>
       /\ Elements(lastOp.value) = Selected(dbFolders, "parentId", lastOp.id)
       /\ NoRepeats(lastOp.value)

\* getAllCredentials(null) returned one of two credentials that are not
\* deleted: the other one is in a folder.
C18_Witness ==
  /\ lastOp.op = "getAllCredentials"
  /\ lastOp.id = NoId
  /\ Len(lastOp.value) = 1
  /\ Cardinality({i \in DOMAIN dbCredentials : ~dbCredentials[i].deleted}) = 2

(* ------------------------------------------------------------------ *)
(* Properties of the encrypted payloads (CredentialSpec)               *)
(* ------------------------------------------------------------------ *)

\* C14: getCredentialData(id) fails with the credential-not-found error
\* whenever the record is absent or soft-deleted, so that no decrypted read
\* returns plaintext after deleteCredential(id).
C14_DeletedIsNotFound ==
  (/\ lastOp.op = "getCredentialData"
   /\ \/ lastOp.id \notin DOMAIN dbCredentials
      \/ dbCredentials[lastOp.id].deleted)
  => /\ lastOp.result = "CredentialNotFoundError"
     /\ lastOp.value = <<>>

\* C15: getCredentialData(id), on an instance with the key of the last
\* write, returns exactly the data passed to the most recent
\* createCredential / updateCredential of id, for every id that is stored
\* and not deleted.
C15_ReadYourWrites ==
  (/\ lastOp.op = "getCredentialData"
   /\ lastOp.id \in DOMAIN dbCredentials
   /\ ~dbCredentials[lastOp.id].deleted
   /\ lastWrite[lastOp.id].key = lastOp.handle)
  => /\ lastOp.result = "ok"
     /\ lastOp.value = <<lastWrite[lastOp.id].data>>

\* The stored row of the earlier session, written as d1, was updated to d2
\* and read back.
C15_Witness ==
  /\ lastOp.op = "getCredentialData"
  /\ lastOp.id = 1
  /\ lastOp.result = "ok"
  /\ lastOp.value = <<"d2">>
  /\ ~dbCredentials[1].deleted

\* Nonces of the payloads that are stored, and nonces drawn so far (by
\* this session and for the rows an earlier session left).
StoredNonces ==
  {dbCredentials[i].encryptedData.nonce : i \in DOMAIN dbCredentials}
UsedNonces == 1..(nextNonce - 1)

\* C16: every payload written by createCredential or updateCredential
\* carries a nonce that no earlier payload carried, the payload it replaces
\* included, and no two stored payloads carry the same nonce.
C16_NonceFreshness ==
  /\ [](\A i, j \in DOMAIN dbCredentials :
          i # j => dbCredentials[i].encryptedData.nonce
                   # dbCredentials[j].encryptedData.nonce)
  /\ [][\A id \in DOMAIN dbCredentials' :
          (\/ id \notin DOMAIN dbCredentials
           \/ dbCredentials'[id].encryptedData
              # dbCredentials[id].encryptedData)
          => /\ dbCredentials'[id].encryptedData.nonce \notin UsedNonces
             /\ dbCredentials'[id].encryptedData.nonce \notin StoredNonces
       ]_vars

\* Two payloads are stored, one of them written by an update that replaced
\* the payload of the earlier session's row.
C16_Witness ==
  /\ lastOp.op = "updateCredential"
  /\ lastOp.result = "ok"
  /\ lastOp.id = 1
  /\ Cardinality(DOMAIN dbCredentials) = 2
  /\ dbCredentials[1].encryptedData.nonce > MaxStoredCredentials

(* ------------------------------------------------------------------ *)
(* Properties of the folder tree (FolderSpec)                          *)
(* ------------------------------------------------------------------ *)

\* The parent a folder row names, if the folder is stored.
ParentOf(f) == IF f \in DOMAIN dbFolders THEN dbFolders[f].parentId ELSE NoId

RECURSIVE ChainFrom(_, _)
\* The ids on the parent chain of f, followed for at most n links.
ChainFrom(f, n) ==
  IF n = 0 \/ ParentOf(f) = NoId THEN {}
  ELSE {ParentOf(f)} \cup ChainFrom(ParentOf(f), n - 1)

\* C20: after any sequence of createFolder, updateFolder, deleteFolder and
\* permanentlyDeleteFolder, following parentId from a folder never leads
\* back to that folder.
C20_NoFolderCycle ==
  \A f \in DOMAIN dbFolders : f \notin ChainFrom(f, MaxIds + 1)

\* A folder inside a folder, the outer one soft-deleted, after an
\* updateFolder.
C20_Witness ==
  /\ lastOp.op = "updateFolder"
  /\ lastOp.result = "ok"
  /\ \E f \in DOMAIN dbFolders :
        /\ ParentOf(f) \in DOMAIN dbFolders
        /\ dbFolders[ParentOf(f)].deleted

(* ------------------------------------------------------------------ *)
(* Properties of the cipher (CipherSpec)                               *)
(* ------------------------------------------------------------------ *)

\* The blob has a ciphertext and a nonce of 24 bytes.
WellFormed(encryptedData) ==
  /\ encryptedData.ciphertext # EmptyCiphertext
  /\ NonceLength(encryptedData.nonce) = NONCE_LENGTH

\* The last call was a decrypt of a well-formed blob with a key, a
\* ciphertext, a nonce or associated data other than those of the encryption.
DecryptOfMismatch ==
  /\ lastOp.op = "decrypt"
  /\ WellFormed(lastOp.encryptedData)
  /\ \/ lastOp.key # lastOp.sealed.key
     \/ lastOp.encryptedData.ciphertext # lastOp.sealed.blob.ciphertext
     \/ lastOp.encryptedData.nonce # lastOp.sealed.blob.nonce
     \/ lastOp.additionalData # lastOp.sealed.additionalData

\* C17: decrypt of a well-formed blob under a wrong key, with a modified
\* ciphertext, with a modified nonce, or with wrong or missing associated
\* data never returns plaintext, and rejects with one and the same error
\* (same type, same message) whatever the cause.
C17_UniformDecryptionFailure ==
  DecryptOfMismatch =>
    /\ lastOp.value = <<>>
    /\ lastOp.result = "Error"
    /\ lastOp.message = "Decryption failed: invalid key or corrupted data"

\* decrypt was called with the right key on the unmodified blob, but without
\* the associated data the blob was sealed with, and rejected.
C17_Witness ==
  /\ lastOp.op = "decrypt"
  /\ lastOp.key = lastOp.sealed.key
  /\ lastOp.encryptedData = lastOp.sealed.blob
  /\ lastOp.sealed.additionalData = "a1"
  /\ lastOp.additionalData = NoAdditionalData
  /\ lastOp.result = "Error"

(* ------------------------------------------------------------------ *)
(* Properties of clearAll (ClearSpec)                                  *)
(* ------------------------------------------------------------------ *)

\* clearAll has cleared some of the three tables and not yet ended.
PartlyCleared == tx.open /\ tx.cleared # {}

\* A step of a call other than clearAll: every step of clearAll opens,
\* advances or ends its transaction.
OtherCall == tx' = tx

\* C19: clearAll is all-or-nothing over credentials, folders and metadata:
\* when it completes all three are empty and isInitialized() is false; when
\* it fails none of the three differs from what it was when clearAll began;
\* and no other call runs on a state in which only some of them are cleared.
C19_ClearAllIsAtomic ==
  [][/\ clearAll_Commit =>
          /\ dbCredentials' = EmptyTable
          /\ dbFolders' = EmptyTable
          /\ dbMetadata' = EmptyTable
          /\ ~isInitialized'
     /\ clearAll_Abort =>
          <<dbCredentials', dbFolders', dbMetadata'>> = tx.before
     /\ OtherCall => ~PartlyCleared
    ]_vars

\* clearAll has completed on a vault that held the earlier session's row
\* and a record created through the instance.
C19_Witness ==
  /\ lastOp.op = "clearAll"
  /\ lastOp.result = "ok"
  /\ nextId > MaxStoredCredentials + 1
  /\ lastWrite # <<>>
  /\ dbCredentials = EmptyTable
  /\ dbFolders = EmptyTable
  /\ ~isInitialized

(* ------------------------------------------------------------------ *)
(* Properties of the metadata row (MetadataSpec)                       *)
(* ------------------------------------------------------------------ *)

\* C21: once initialize(salt) has stored the metadata row, no later call
\* (a second initialize included) changes its salt or createdAt for as long
\* as the row is stored, that is until clearAll wipes the vault; and the
\* metadata table never holds a row other than 'default'.
C21_SaltWrittenOnce ==
  [][/\ DOMAIN dbMetadata' \subseteq {"default"}
     /\ ("default" \in DOMAIN dbMetadata /\ "default" \in DOMAIN dbMetadata')
        => /\ dbMetadata'["default"].salt = dbMetadata["default"].salt
           /\ dbMetadata'["default"].createdAt
                = dbMetadata["default"].createdAt]_vars

(* ------------------------------------------------------------------ *)
(* What the credentials table holds (CredentialSpec)                   *)
(* ------------------------------------------------------------------ *)

\* The fields of a credential row whose values are stored in the clear.
ClearFields == {"id", "folderId", "createdAt", "updatedAt", "deleted"}

\* The data of the row is stored only as the plaintext sealed under the
\* writer's key: every other field is an id, a time, a flag, a nonce or a
\* version number.
OnlySealed(row, data) ==
  /\ DOMAIN row = ClearFields \cup {"encryptedData"}
  /\ row.id \in Nat /\ row.folderId \in Nat
  /\ row.createdAt \in Nat /\ row.updatedAt \in Nat
  /\ row.deleted \in BOOLEAN
  /\ DOMAIN row.encryptedData = {"ciphertext", "nonce", "timestamp", "version"}
  /\ row.encryptedData.nonce \in Nat
  /\ row.encryptedData.timestamp \in Nat
  /\ row.encryptedData.version = EncryptionVersion
  /\ row.encryptedData.ciphertext.body[1] = "xchacha20"
  /\ AeadOpen(row.encryptedData.ciphertext) = JsonStringify(data)

\* C22: in every credential row written by createCredential or
\* updateCredential the credential data (title, username, password, url,
\* notes, customFields) is stored only inside the encryptedData
\* ciphertext; no other field of the row holds it, and the table's indexes
\* are over fields that do not hold it.
C22_NoPlaintextStored ==
  /\ CredentialIndexes \subseteq ClearFields
  /\ \A id \in DOMAIN dbCredentials :
        OnlySealed(dbCredentials[id], lastWrite[id].data)

\* Rows written by createCredential and by updateCredential are stored.
C22_Witness ==
  /\ lastOp.op = "updateCredential" /\ lastOp.result = "ok"
  /\ \E id \in DOMAIN dbCredentials :
        /\ id > MaxStoredCredentials
        /\ id # lastOp.id
        /\ lastWrite[id].data = "d2"
  /\ lastWrite[lastOp.id].data = "d2"

(* ------------------------------------------------------------------ *)
(* Errors of reading a stored credential (LoadSpec)                    *)
(* ------------------------------------------------------------------ *)

\* The error decrypt raises for the stored payload of id under key k.
ReadError(id, k) ==
  decrypt(dbCredentials[id].encryptedData, k, NoAdditionalData)

\* The last getCredentialData on an instance whose key does not open the
\* stored payload rejected with the error of decrypt.
StorageReadPropagates ==
  (/\ lastOp.op = "getCredentialData"
   /\ lastOp.id \in DOMAIN dbCredentials
   /\ ReadError(lastOp.id, lastOp.handle).threw)
  => /\ lastOp.result = ReadError(lastOp.id, lastOp.handle).name
     /\ lastOp.message = ReadError(lastOp.id, lastOp.handle).message
     /\ lastOp.value = <<>>

\* Task t takes a turn of the loop of decryptAllCredentials in this step and
\* the read of the credential it is at fails to decrypt.
LoadReadFails(t) ==
  /\ tasks[t].pc = "getCredentialData"
  /\ tasks'[t] # tasks[t]
  /\ Head(tasks[t].todo).id \in DOMAIN dbCredentials
  /\ ReadError(Head(tasks[t].todo).id, tasks[t].key).threw

\* C23: a decryption-failed or invalid-encrypted-data error raised while
\* reading a stored credential reaches the caller unchanged: getCredentialData
\* rejects with it, and the load of unlock() / loadCredentials() ends with
\* it as the store's error instead of going on without the credential.
C23_DecryptionErrorsPropagate ==
  [][/\ StorageReadPropagates'
     /\ \A t \in 1..MaxTasks :
          LoadReadFails(t)
          => /\ tasks'[t] = IdleTask
             /\ error' = ReadError(Head(tasks[t].todo).id,
                                   tasks[t].key).message]_vars

(* ------------------------------------------------------------------ *)
(* Update and delete of an id that is not stored (MissingSpec)         *)
(* ------------------------------------------------------------------ *)

\* The call that returned in this step was one of ops on an id that table
\* did not hold.
MissingId(ops, table) ==
  /\ lastOp'.op \in ops
  /\ lastOp'.id \notin DOMAIN table

StoreUntouched == UNCHANGED <<dbCredentials, dbFolders, dbMetadata>>

\* C24: updateCredential and deleteCredential of an id that is not stored
\* reject with CredentialNotFoundError, updateFolder and deleteFolder with
\* FolderNotFoundError, and leave the store as it was: no row is created or
\* changed and lastAccessedAt is not touched.
C24_MissingIdIsNotFound ==
  [][/\ MissingId({"updateCredential", "deleteCredential"}, dbCredentials)
        => /\ lastOp'.result = "CredentialNotFoundError"
           /\ StoreUntouched
     /\ MissingId({"updateFolder", "deleteFolder"}, dbFolders)
        => /\ lastOp'.result = "FolderNotFoundError"
           /\ StoreUntouched]_vars

\* An update of a missing credential id was refused, later than the last
\* access, on a store that holds a credential and a folder.
C24_Witness ==
  /\ lastOp.op = "updateCredential"
  /\ lastOp.result = "CredentialNotFoundError"
  /\ lastOp.id \notin DOMAIN dbCredentials
  /\ dbCredentials # EmptyTable /\ dbFolders # EmptyTable
  /\ dbMetadata["default"].lastAccessedAt < now

(* ------------------------------------------------------------------ *)
(* The key's bytes at lock (KeySpec)                                   *)
(* ------------------------------------------------------------------ *)

\* The vault store goes from unlocked to locked in this step.
BecomesLocked == isUnlocked /\ ~isUnlocked'

\* C25: on every transition to Locked, by lock() or by the inactivity
\* auto-lock, the buffer of the key the store was holding is overwritten
\* with zeros, so that the key object handed out earlier no longer decrypts.
C25_LockZeroesKey ==
  [][BecomesLocked => key \in zeroedKeys']_vars

(* ------------------------------------------------------------------ *)
(* Key derivation across lock and unlock (RekeySpec)                   *)
(* ------------------------------------------------------------------ *)

\* The key the credentials of the vault's owner are sealed under.
VaultKey == crypto_pwhash(VaultPassword, VaultSalt)

VerifySettles ==
  /\ lastOp'.op = "verifyPassword"
  /\ UNCHANGED zeroedKeys

\* The key derived from the arguments of that call is the expected key.
DerivedIsExpected ==
  LET password == lastOp'.handle[1]
      salt == lastOp'.handle[2]
      expectedKey == lastOp'.handle[3]
  IN  /\ password # EmptyPassword
      /\ crypto_pwhash(password, salt) = getBuffer(expectedKey)

\* C30: verifyPassword(password, salt, expectedKey) never throws: it
\* resolves with true exactly when the key derived from password and salt
\* equals expectedKey, and with false otherwise, also when the derivation
\* fails (empty password).
C30_VerifyPasswordNeverThrows ==
  [][VerifySettles
     => /\ lastOp'.result = "ok"
        /\ lastOp'.value = <<DerivedIsExpected>>]_vars

\* verifyPassword with an empty password resolved with false.
C30_Witness ==
  /\ lastOp.op = "verifyPassword"
  /\ lastOp.handle[1] = EmptyPassword
  /\ lastOp.result = "ok"
  /\ lastOp.value = <<FALSE>>

(* ------------------------------------------------------------------ *)
(* Errors of the cipher calls (CipherSpec)                             *)
(* ------------------------------------------------------------------ *)

\* The errors decrypt raises for a blob it does not take to the AEAD.
InvalidEncryptedData ==
  {"Invalid encrypted data: missing ciphertext or nonce",
   "Invalid nonce length"}

\* The blob lacks its ciphertext or its nonce, or the nonce is not 24 bytes.
Malformed(encryptedData) ==
  \/ encryptedData.ciphertext = EmptyCiphertext
  \/ encryptedData.nonce = EmptyNonce
  \/ NonceLength(encryptedData.nonce) # NONCE_LENGTH

\* C27: decrypt of a blob whose ciphertext or nonce is missing or empty, or
\* whose nonce is not exactly 24 bytes, rejects with the error for invalid
\* encrypted data, never with the decryption-failed error and never with
\* plaintext, whatever the key and the associated data.
C27_MalformedBlobRejected ==
  (lastOp.op = "decrypt" /\ Malformed(lastOp.encryptedData))
  => /\ lastOp.result = "Error"
     /\ lastOp.message \in InvalidEncryptedData
     /\ lastOp.value = <<>>

\* decrypt was given the right key and associated data and a nonce that is
\* too short, and rejected it for its length.
C27_Witness ==
  /\ lastOp.op = "decrypt"
  /\ lastOp.encryptedData.nonce = ShortNonce
  /\ lastOp.key = lastOp.sealed.key
  /\ lastOp.additionalData = lastOp.sealed.additionalData
  /\ lastOp.message = "Invalid nonce length"

\* C28: encrypt of an empty input, the empty string or a zero-length
\* buffer, rejects with the empty-plaintext error, returns no blob and
\* draws no nonce.
C28_EmptyPlaintextRejected ==
  [][(/\ lastOp'.op = "encrypt"
      /\ lastOp'.plaintext \in {EmptyPlaintext, EmptyBuffer})
     => /\ lastOp'.result = "Error"
        /\ lastOp'.message = "Plaintext cannot be empty"
        /\ lastOp'.value = <<>>
        /\ UNCHANGED nextNonce]_vars

\* The plaintext decryptCredentials found under the seal, when the blob
\* passed authentication.
Authenticated ==
  /\ lastOp.op = "decryptCredentials"
  /\ ~decrypt(lastOp.encryptedData, lastOp.key, NoAdditionalData).threw

IsObjectText(text) == IsJson(text) /\ JsonParse(text) \in CredentialDatas

\* C29: decryptCredentials rejects with the malformed-payload error whenever
\* the authenticated plaintext is not the JSON text of an object, be it no
\* JSON at all or the JSON of null, a number, a string or an array; it never
\* returns a value that is not an object.
C29_NonObjectPayloadRejected ==
  /\ (Authenticated /\ ~IsObjectText(ToUtf8String(lastOp.sealed.plaintext)))
     => /\ lastOp.result = "Error"
        /\ lastOp.message
             = "Failed to parse decrypted credentials: invalid JSON"
        /\ lastOp.value = <<>>
  /\ (lastOp.op = "decryptCredentials" /\ lastOp.result = "ok")
     => lastOp.value[1] \in CredentialDatas

(* ------------------------------------------------------------------ *)
(* Calls on one credential at the same time (RaceSpec)                 *)
(* ------------------------------------------------------------------ *)

\* Call c resolves in this step.
Resolves(c) == calls[c].pc = "touch" /\ calls'[c] = IdleCall

\* C31: updateCredential beside permanentlyDeleteCredential of the same id
\* resolves only if its write was applied to a stored row; when the row was
\* gone at the write, it rejects with CredentialNotFoundError.
C31_UpdateAppliedOrNotFound ==
  [][\A c \in 1..MaxCalls :
       (Resolves(c) /\ calls[c].op = "updateCredential")
       => IF calls[c].applied = 1
          THEN lastOp'.result = "ok"
          ELSE lastOp'.result = "CredentialNotFoundError"]_vars

\* A call of op on id that has read the row as it was stored at first and
\* has made its write since.
WroteAfterRead(op, id) ==
  \E c \in 1..MaxCalls :
    /\ calls[c].op = op /\ calls[c].id = id
    /\ calls[c].pc = "touch" /\ calls[c].applied = 1
    /\ calls[c].existing = <<StoredCredential(id)>>

\* C33: updateCredential and deleteCredential of one stored credential at
\* the same time leave, in every interleaving, a row with deleted = true whose
\* encryptedData is the payload the update wrote: the row always opens to the
\* data written last, a row marked deleted stays marked, and a
\* deleteCredential that resolves leaves the row marked.
C33_BothEffectsSurvive ==
  [][\A id \in DOMAIN dbCredentials' :
       LET row == dbCredentials'[id]
       IN  /\ decryptCredentials(row.encryptedData, lastWrite'[id].key)
                = Return(lastWrite'[id].data)
           /\ (id \in DOMAIN dbCredentials /\ dbCredentials[id].deleted)
                => row.deleted
           /\ (\E c \in 1..MaxCalls :
                 /\ Resolves(c) /\ calls[c].op = "deleteCredential"
                 /\ calls[c].id = id)
                => row.deleted]_vars

\* Both calls read credential 1 before either wrote, and both have written.
C33_Witness ==
  /\ WroteAfterRead("updateCredential", 1)
  /\ WroteAfterRead("deleteCredential", 1)
  /\ 1 \in DOMAIN dbCredentials
  /\ dbCredentials[1].deleted
  /\ getCredentialData("k1", 1) = Return("d2")

(* ------------------------------------------------------------------ *)
(* The session of a locked vault (StoreSpec)                           *)
(* ------------------------------------------------------------------ *)

\* An unlock() call has not settled yet.
UnlockInFlight == \E t \in 1..MaxTasks : tasks[t].kind = "unlock"

\* C32: whenever the vault store is locked and no unlock() call is in
\* flight, the session store is inactive and has no timer; also when lock()
\* runs between setKey(key) and the end of setKey's initializeSession().
C32_LockedMeansNoSession ==
  (~isUnlocked /\ ~UnlockInFlight)
    => (~isActive /\ autoLockTimerId = NoTimer)

(* ------------------------------------------------------------------ *)
(* The lock exchange between the worker and the popup (SystemSpec)     *)
(* ------------------------------------------------------------------ *)

\* The worker's timer callback broadcasts 'vault-locked' in this step.
Broadcasts == toPopup' = Append(toPopup, "vault-locked")

\* The worker handles a message of this type in this step.
Handles(type) ==
  /\ toBackground # <<>>
  /\ Head(toBackground) = type
  /\ toBackground' = Tail(toBackground)

\* The popup's listener receives 'vault-locked' in this step.
ReceivesVaultLocked == toPopup # <<>> /\ toPopup' = Tail(toPopup)

\* The worker has locked from its timer and has not heard from the popup
\* since: its timer still runs.
WorkerAutoLocked == ~bgIsUnlocked /\ bgAutoLockTimer # NoTimer

SoftDeleted == {id \in DOMAIN dbCredentials : dbCredentials[id].deleted}

\* C35: soft delete is one-way. No call changes deleted from true to false
\* on a row that stays stored; a listing by getAllCredentials holds no row
\* that is marked deleted in the table; and updateCredential and
\* deleteCredential fail only for an id with no row, so they succeed on a
\* soft-deleted one.
C35_SoftDeleteOneWay ==
  [][/\ \A id \in SoftDeleted :
          id \in DOMAIN dbCredentials' => dbCredentials'[id].deleted
     /\ lastOp'.op = "getAllCredentials"
          => \A i \in 1..Len(lastOp'.value) :
               /\ ~lastOp'.value[i].deleted
               /\ lastOp'.value[i].id \notin SoftDeleted'
     /\ (lastOp'.op \in {"updateCredential", "deleteCredential"}
         /\ lastOp'.result # "ok")
          => lastOp'.id \notin DOMAIN dbCredentials']_vars

\* updateCredential has just succeeded on a credential that was soft-deleted
\* before, and the row is still marked deleted.
C35_Witness ==
  /\ lastOp.op = "updateCredential" /\ lastOp.result = "ok"
  /\ lastOp.id \in SoftDeleted
  /\ dbCredentials[lastOp.id].updatedAt = now

(* ------------------------------------------------------------------ *)
(* What the mutating calls change (MissingSpec)                        *)
(* ------------------------------------------------------------------ *)

\* updateCredential(id, ...) resolves in this step: the one call that draws
\* a nonce and returns as updateCredential.
UpdateSucceeds(id) ==
  /\ nextNonce' = nextNonce + 1
  /\ lastOp'.op = "updateCredential"
  /\ lastOp'.result = "ok"
  /\ lastOp'.id = id

\* C36: a successful updateCredential(id, data) changes only encryptedData
\* and updatedAt of row id (id, folderId, createdAt and deleted stay), changes
\* no other credential row and no folder row, and leaves updatedAt no smaller
\* than it was and no smaller than createdAt.
C36_UpdateFrame ==
  [][\A id \in RecordIds :
       UpdateSucceeds(id)
       => /\ id \in DOMAIN dbCredentials
          /\ DOMAIN dbCredentials' = DOMAIN dbCredentials
          /\ dbCredentials' =
               [dbCredentials EXCEPT
                  ![id].encryptedData = dbCredentials'[id].encryptedData,
                  ![id].updatedAt = dbCredentials'[id].updatedAt]
          /\ dbFolders' = dbFolders
          /\ dbCredentials'[id].updatedAt >= dbCredentials[id].updatedAt
          /\ dbCredentials'[id].updatedAt >= dbCredentials'[id].createdAt]_vars

\* updateCredential has just succeeded on a row created at an earlier time,
\* beside another stored credential and a stored folder.
C36_Witness ==
  /\ lastOp.op = "updateCredential" /\ lastOp.result = "ok"
  /\ lastOp.id \in DOMAIN dbCredentials
  /\ dbCredentials[lastOp.id].updatedAt = now
  /\ dbCredentials[lastOp.id].createdAt < now
  /\ DOMAIN dbCredentials # {lastOp.id}
  /\ DOMAIN dbFolders # {}

\* The calls of VaultStorage that write a credential or a folder.
MutatingCalls ==
  {"createCredential", "updateCredential", "deleteCredential",
   "permanentlyDeleteCredential", "createFolder", "updateFolder",
   "deleteFolder", "permanentlyDeleteFolder"}

\* A call of VaultStorage returns in this step: the steps of MissingSpec
\* that leave the clock and the set of instances alone.
StoreCallReturns == now' = now /\ storages' = storages /\ vars' # vars

\* A mutating call resolves in this step.
MutatingCallSucceeds ==
  /\ StoreCallReturns
  /\ lastOp'.op \in MutatingCalls
  /\ lastOp'.result = "ok"

====
